---- MODULE Spec2Model ----
(***************************************************************************)
(* ContinuousWaldoMonitor (src/continuous_waldo_monitor.py): the capture   *)
(* loop, its aggregation window, the novelty filter, and the collaborators *)
(* it drives (event store, broadcast hub, AI description, speech).         *)
(*                                                                         *)
(* Time is in milliseconds.  time.time() is the clock `now`; a worker      *)
(* samples it at the top of an iteration (line 129) and uses that sample   *)
(* for every comparison of the iteration.                                  *)
(***************************************************************************)
EXTENDS Integers, Sequences, FiniteSets, TLC

VARIABLES
    now,                  \* time.time(), ms
    camera_seq,           \* frames the capture source has delivered so far
    monitoring,           \* self.monitoring
    worker,               \* the monitor threads: position and locals of each
    stats,                \* self.stats
    agg_active,           \* self._agg_active
    agg_start_ts,         \* self._agg_start_ts
    agg_last_trigger_ts,  \* self._agg_last_trigger_ts
    agg_frames_b64,       \* self._agg_frames_b64 (frames by capture number)
    last_summary_text,    \* self._last_summary_text
    last_summary_ts,      \* self._last_summary_ts
    events,               \* the lines of the event store's file
    hub_log,              \* payloads handed to ws_hub.broadcast
    ai_calls,             \* calls of vision.analyze_image_structured
    speech_calls,         \* calls of vision.speak_description
    speech_cfg,           \* vision.config['speech']: enabled, disabled, missing
    oracle_log,           \* what the oracle answered for each frame
    append_calls,         \* calls of event_store.append and how each ended
    ret,                  \* what the last start_monitoring/stop_monitoring returned
    filter_available,     \* FILTER_AVAILABLE
    speech_ret,           \* how the last call of vision.speak_description ended
    capture_log,          \* failed camera reads: the frames read before, logged or not
    store_file,           \* EventStore: the chunks written to the file at path
    store_lock,           \* EventStore: the holder of self._lock, 0 when free
    store_caller,         \* EventStore: the threads inside append
    query_ret,            \* EventStore: the last query and what it returned
    hub_loop,             \* hub: what self.loop refers to
    hub_thread,           \* hub: the runner thread
    hub_clients,          \* hub: self.clients
    hub_broken,           \* hub: subscribers whose connection has failed
    hub_tasks,            \* hub: _broadcast calls scheduled on the loop
    hub_pending,          \* hub: sends under way, per subscriber, in order
    hub_received,         \* hub: messages each subscriber has received
    hub_failed,           \* hub: messages whose send to a subscriber raised
    hub_n,                \* hub: broadcast calls made so far
    hub_starts,           \* hub: runner threads started so far
    hub_ret,              \* hub: how the last call of the publisher ended
    relay_enabled,        \* relay: enabled, with a url and with websockets
    relay_q,              \* relay: self.q
    relay_stop_flag,      \* relay: self.stop_flag
    relay_thread,         \* relay: the thread self.thread refers to, 0 for None
    relay_sender,         \* relay: the sender threads, position and frame held
    relay_producer,       \* relay: the threads inside enqueue
    relay_n,              \* relay: enqueue calls made so far
    relay_taken,          \* relay: frames the senders have taken from the queue
    relay_failures,       \* relay: connection and send failures so far
    relay_ret             \* relay: how the last call of start, stop, enqueue ended

vars == <<now, camera_seq, monitoring, worker, stats, agg_active, agg_start_ts,
          agg_last_trigger_ts, agg_frames_b64, last_summary_text,
          last_summary_ts, events, hub_log, ai_calls, speech_calls, speech_cfg,
          oracle_log, append_calls, ret, filter_available, speech_ret,
          capture_log, store_file,
          store_lock, store_caller, query_ret, hub_loop, hub_thread,
          hub_clients, hub_broken, hub_tasks, hub_pending, hub_received,
          hub_failed, hub_n, hub_starts, hub_ret, relay_enabled, relay_q,
          relay_stop_flag, relay_thread, relay_sender, relay_producer,
          relay_n, relay_taken, relay_failures, relay_ret>>

\* The state of the EventStore seen by the concurrent callers of append.
storeVars == <<store_file, store_lock, store_caller>>

\* What the queries of the EventStore leave behind.
queryVars == <<query_ret>>

\* The state of the monitor.
monitorVars ==
    <<now, camera_seq, monitoring, worker, stats, agg_active, agg_start_ts,
      agg_last_trigger_ts, agg_frames_b64, last_summary_text, last_summary_ts,
      events, hub_log, ai_calls, speech_calls, speech_cfg, oracle_log,
      append_calls, ret, filter_available, speech_ret, capture_log>>

\* The state of the broadcast hub.
hubVars == <<hub_loop, hub_thread, hub_clients, hub_broken, hub_tasks,
             hub_pending, hub_received, hub_failed, hub_n, hub_starts,
             hub_ret>>

\* The state of the ingest relay.
relayVars == <<relay_enabled, relay_q, relay_stop_flag, relay_thread,
               relay_sender, relay_producer, relay_n, relay_taken,
               relay_failures, relay_ret>>

\* Everything outside the monitor, outside append, outside the queries,
\* outside the hub and outside the relay.
outsideMonitor == <<storeVars, queryVars, hubVars, relayVars>>

\* Outside the monitor and the relay it feeds.
outsideMonitorAndRelay == <<storeVars, queryVars, hubVars>>

outsideStore == <<monitorVars, queryVars, hubVars, relayVars>>

outsideQueries == <<monitorVars, storeVars, hubVars, relayVars>>

outsideHub == <<monitorVars, storeVars, queryVars, relayVars>>

outsideRelay == <<monitorVars, storeVars, queryVars, hubVars>>

----------------------------------------------------------------------------
(* Bounds of the model *)

\* frames the capture source delivers in a run
MaxFrames == 4

\* broadcast calls in a run of the hub's specification
MaxBroadcasts == 3

\* runner threads the hub starts in a run
MaxHubStarts == 1

\* sender threads the relay starts in a run
MaxSenders == 2

\* enqueue calls in a run of the relay queue's specification: enough to fill
\* the queue and overflow it
MaxEnqueues == 102

\* frames the sender takes from the queue in such a run
MaxSends == 2

\* failed camera reads in a run of the capture specification
MaxReadFailures == 3

\* enqueue calls, and connection and send failures, in a run of the relay
\* lifecycle's specification
MaxLifeEnqueues == 2

MaxFailures == 2

\* events appended in a run of the queries' specification
MaxLogLen == 3

\* frames delivered in a run of the novelty filter's specification
MaxNoveltyFrames == 6

\* monitor threads that can be alive at once
MaxWorkers == 2

\* threads that call EventStore.append, and the calls each makes
MaxCallers == 2

MaxAppends == 2

(* Program constants, in ms *)

\* line 69: self._agg_max_duration = 5.0
agg_max_duration == 5000

\* line 189: (current_time - self._agg_last_trigger_ts) > 0.25
QuietLiteralMs == 250

\* line 70: self._quiet_threshold = 0.5 (seconds), read nowhere
quiet_threshold == 500

\* line 235: (current_time - self._last_summary_ts) < 60
NoveltyWindowMs == 60000

\* line 235: sim >= 0.90, as a percentage
NoveltyPercent == 90

\* src/ingest_publisher.py line 18: queue.Queue(maxsize=100)
maxsize == 100

\* line 249: self.stats['frames_processed'] % 30 == 0
LogEvery == 30

None == "None"

Workers == 1..MaxWorkers

\* The clock when the process starts: Unix time, later than every threshold.
Epoch == 2 * NoveltyWindowMs

----------------------------------------------------------------------------
(* Descriptions and difflib.SequenceMatcher(None, a, b).ratio() *)

Lower(c) ==
    CASE c = "A" -> "a" [] c = "B" -> "b" [] c = "C" -> "c" [] c = "D" -> "d"
      [] c = "E" -> "e" [] c = "F" -> "f" [] c = "G" -> "g" [] c = "H" -> "h"
      [] c = "I" -> "i" [] c = "J" -> "j" [] c = "X" -> "x" [] c = "Y" -> "y"
      [] OTHER -> c

\* str.lower()
LowerStr(s) == [i \in 1..Len(s) |-> Lower(s[i])]

\* Length of the common run of a and b that starts at a[i], b[j].
RECURSIVE RunLen(_, _, _, _)
RunLen(a, i, b, j) ==
    IF i > Len(a) \/ j > Len(b) \/ a[i] # b[j] THEN 0
    ELSE 1 + RunLen(a, i + 1, b, j + 1)

\* SequenceMatcher.find_longest_match: the longest common block, the one
\* starting earliest in a, and of those earliest in b.
LongestMatch(a, b) ==
    LET cands == {<<i, j>> \in (1..Len(a)) \X (1..Len(b)) : a[i] = b[j]}
        best  == CHOOSE p \in cands :
                    \A q \in cands :
                        LET lp == RunLen(a, p[1], b, p[2])
                            lq == RunLen(a, q[1], b, q[2])
                        IN  \/ lp > lq
                            \/ lp = lq /\ p[1] < q[1]
                            \/ lp = lq /\ p[1] = q[1] /\ p[2] <= q[2]
    IN  IF cands = {} THEN <<0, 0, 0>>
        ELSE <<best[1], best[2], RunLen(a, best[1], b, best[2])>>

\* SequenceMatcher.get_matching_blocks: total size of the matching blocks,
\* the longest block and then, recursively, the pieces left and right of it.
RECURSIVE Matches(_, _)
Matches(a, b) ==
    LET m == LongestMatch(a, b)
    IN  IF m[3] = 0 THEN 0
        ELSE m[3]
             + Matches(SubSeq(a, 1, m[1] - 1), SubSeq(b, 1, m[2] - 1))
             + Matches(SubSeq(a, m[1] + m[3], Len(a)),
                       SubSeq(b, m[2] + m[3], Len(b)))

\* ratio() >= pct/100, where ratio() = 2.0 * matches / (len(a) + len(b)),
\* and 1.0 for two empty strings.
RatioAtLeast(a, b, pct) ==
    IF Len(a) + Len(b) = 0 THEN TRUE
    ELSE 200 * Matches(a, b) >= pct * (Len(a) + Len(b))

D1 == "abcdefghij"
D2 == "ABCDEFGHIx"
D3 == "abcdefyyij"

\* Texts the AI description collaborator can return.
Descriptions == {D1, D2, D3}

\* The characters of a text.
Chars(d) ==
    CASE d = D1 -> <<"a", "b", "c", "d", "e", "f", "g", "h", "i", "j">>
      [] d = D2 -> <<"A", "B", "C", "D", "E", "F", "G", "H", "I", "x">>
      [] d = D3 -> <<"a", "b", "c", "d", "e", "f", "y", "y", "i", "j">>
      [] OTHER  -> <<>>

\* Lines 234-235: the pairs of texts with sim >= 0.90, computed once.
SimilarTable ==
    UNION {IF RatioAtLeast(LowerStr(Chars(p[1])), LowerStr(Chars(p[2])),
                           NoveltyPercent)
           THEN {p} ELSE {} : p \in Descriptions \X Descriptions}

----------------------------------------------------------------------------
(* The aggregation window, lines 176-191 *)

\* The window fields as one value.
Agg == [active |-> agg_active, start_ts |-> agg_start_ts,
        last_trigger_ts |-> agg_last_trigger_ts, frames |-> agg_frames_b64]

\* OnDecision with every true decision opening a window of its own.
OnDecisionReopens(a, should_trigger, current_time, frame) ==
    IF should_trigger
    THEN [active |-> TRUE, start_ts |-> current_time,
          last_trigger_ts |-> current_time, frames |-> <<frame>>]
    ELSE a

\* OnDecision with the frames decided false kept in an active window too.
OnDecisionKeepsAll(a, should_trigger, current_time, frame) ==
    IF should_trigger
    THEN [active |-> TRUE,
          start_ts |-> IF a.active THEN a.start_ts ELSE current_time,
          last_trigger_ts |-> current_time,
          frames |-> Append(IF a.active THEN a.frames ELSE <<>>, frame)]
    ELSE IF a.active THEN [a EXCEPT !.frames = Append(@, frame)] ELSE a

\* Lines 176-185: a decision's effect on the window.  A true decision opens
\* a window when none is active, and in every case stamps the trigger time
\* and appends the frame; a false decision leaves the window alone.
OnDecision(a, should_trigger, current_time, frame) ==
    IF should_trigger
    THEN [active          |-> TRUE,
          start_ts        |-> IF a.active THEN a.start_ts ELSE current_time,
          last_trigger_ts |-> current_time,
          frames          |-> Append(IF a.active THEN a.frames ELSE <<>>, frame)]
    ELSE a

\* Line 189
TriggersQuiet(a, current_time) ==
    (current_time - a.last_trigger_ts) > QuietLiteralMs

\* Line 190
TimedOut(a, current_time) ==
    (current_time - a.start_ts) >= agg_max_duration

\* Lines 187-191: whether this frame closes the window.
ShouldClose(a, should_trigger, current_time) ==
    /\ a.active
    /\ \/ ~should_trigger /\ TriggersQuiet(a, current_time)
       \/ TimedOut(a, current_time)

\* Suppress with the novelty window closed at its far end.
SuppressInclusive(description, current_time, last_text, last_ts) ==
    /\ last_text # None
    /\ last_text # ""
    /\ <<description, last_text>> \in SimilarTable
    /\ (current_time - last_ts) <= NoveltyWindowMs

\* Lines 233-236: the novelty filter's verdict on a description.
Suppress(description, current_time, last_text, last_ts) ==
    /\ last_text # None
    /\ last_text # ""
    /\ <<description, last_text>> \in SimilarTable
    /\ (current_time - last_ts) < NoveltyWindowMs

\* Truthy with the speech branch entered for any description, None too.
TruthyAlways(description) == TRUE

\* Line 229: "if description": None and the empty string are falsy.
Truthy(description) == description # None /\ description # ""

\* NoveltyState overwritten whether or not the description was spoken.
NoveltyStateAlways(spoken, description, current_time, last_text, last_ts) ==
    [text |-> description, ts |-> current_time]

\* Lines 238-242: the novelty state after a description was handled; it is
\* overwritten only on the path that speaks.
NoveltyState(spoken, description, current_time, last_text, last_ts) ==
    IF spoken THEN [text |-> description, ts |-> current_time]
    ELSE [text |-> last_text, ts |-> last_ts]

\* Lines 177, 185: the counter a decision increments.  CountBoth is the
\* same with a true decision counted as a saved frame too.
CountBoth(s, should_trigger) ==
    [s EXCEPT !.triggers  = IF should_trigger THEN @ + 1 ELSE @,
              !.api_saves = @ + 1]

CountDecision(s, should_trigger) ==
    [s EXCEPT !.triggers  = IF should_trigger THEN @ + 1 ELSE @,
              !.api_saves = IF should_trigger THEN @ ELSE @ + 1]

\* ClearWindow with the frame list left as it is.
ClearWindowKeepsFrames(a) == [a EXCEPT !.active = FALSE]

\* Lines 245-246: the window is cleared; its timestamps stay.
ClearWindow(a) == [a EXCEPT !.active = FALSE, !.frames = <<>>]

----------------------------------------------------------------------------
(* EventStore.append, src/event_store.py lines 18-22 *)

Callers == 1..MaxCallers

\* A caller outside append; n counts its calls, returned lists the events
\* whose append returned.
IdleCaller == [pc |-> "idle", line |-> <<>>, written |-> 0, n |-> 0,
               returned |-> <<>>]

\* Line 19, 22: json.dumps(event) + '\n' as the pieces the file receives
\* when the buffer is flushed: the text (json.dumps escapes every newline
\* of the event) and the terminator.
LineOf(event) == <<[ev |-> event, part |-> "json"],
                   [ev |-> event, part |-> "newline"]>>

\* Line 18-19: append is called and serialises its event.
AppendCall(t) ==
    /\ store_caller[t].pc = "idle"
    /\ store_caller' = [store_caller EXCEPT ![t] =
           [@ EXCEPT !.pc = "serialised", !.n = @ + 1, !.written = 0,
                     !.line = LineOf(<<t, store_caller[t].n + 1>>)]]
    /\ UNCHANGED <<store_file, store_lock>>
    /\ UNCHANGED outsideStore

\* AppendLock entering without waiting for the holder.
AppendLockUnguarded(t) ==
    /\ store_caller[t].pc = "serialised"
    /\ store_lock' = t
    /\ store_caller' = [store_caller EXCEPT ![t].pc = "locked"]
    /\ UNCHANGED store_file
    /\ UNCHANGED outsideStore

\* Line 20: with self._lock.
AppendLock(t) ==
    /\ store_caller[t].pc = "serialised"
    /\ store_lock = 0
    /\ store_lock' = t
    /\ store_caller' = [store_caller EXCEPT ![t].pc = "locked"]
    /\ UNCHANGED store_file
    /\ UNCHANGED outsideStore

\* Line 21: open(self.path, 'a') raises; the with statement releases the
\* lock and the exception reaches the caller.
AppendOpenFails(t) ==
    /\ store_caller[t].pc = "locked"
    /\ store_lock' = 0
    /\ store_caller' = [store_caller EXCEPT ![t] =
           [@ EXCEPT !.pc = "idle", !.line = <<>>]]
    /\ UNCHANGED store_file
    /\ UNCHANGED outsideStore

\* Lines 21-22: the file is open in append mode and receives the next piece
\* of the line at its end.
AppendWrite(t) ==
    /\ store_caller[t].pc \in {"locked", "writing"}
    /\ store_caller[t].written < Len(store_caller[t].line)
    /\ store_file' = Append(store_file,
                            store_caller[t].line[store_caller[t].written + 1])
    /\ store_caller' = [store_caller EXCEPT ![t] =
           [@ EXCEPT !.pc = "writing", !.written = @ + 1]]
    /\ UNCHANGED store_lock
    /\ UNCHANGED outsideStore

\* Lines 20-22: the file is closed, the lock released, append returns.
AppendReturn(t) ==
    /\ store_caller[t].pc = "writing"
    /\ store_caller[t].written = Len(store_caller[t].line)
    /\ store_lock' = IF store_lock = t THEN 0 ELSE store_lock
    /\ store_caller' = [store_caller EXCEPT ![t] =
           [@ EXCEPT !.pc = "idle", !.line = <<>>,
                     !.returned = Append(@, <<t, store_caller[t].n>>)]]
    /\ UNCHANGED store_file
    /\ UNCHANGED outsideStore

NextStore ==
    \/ \E t \in Callers : store_caller[t].n < MaxAppends /\ AppendCall(t)
    \/ \E t \in Callers : AppendLock(t)
    \/ \E t \in Callers : AppendOpenFails(t)
    \/ \E t \in Callers : AppendWrite(t)
    \/ \E t \in Callers : AppendReturn(t)

----------------------------------------------------------------------------
(* EventStore queries, src/event_store.py lines 24-90 *)

Minute == 60000

\* A timestamp value of a record or of a query, by what
\* str(ts).replace('Z', '+00:00') gives datetime.fromisoformat: "z" is ISO
\* text ending in 'Z' (what the monitor writes at line 216), "naive" is ISO
\* text without a zone, "text" is anything that is not ISO, "none" is an
\* absent key (ev.get gives None).
Stamp(kind, t) == [kind |-> kind, t |-> t]

NoStamp == Stamp("none", 0)

\* The event a line holds.  ts_ms and source stand for the fields that the
\* projection of context() leaves out.
StoredEvent(n, ts_iso, ts) ==
    [n |-> n, ts_iso |-> ts_iso, ts |-> ts,
     ts_ms |-> IF ts_iso.kind = "none" THEN ts.t ELSE ts_iso.t,
     duration_ms |-> 300, frames_count |-> 1, description |-> D1,
     confidence_hint |-> 0, source |-> "waldo_monitor"]

\* Line 216: the record as the monitor writes it.
MonitorEvent(n, t) == StoredEvent(n, Stamp("z", t), NoStamp)

\* The events appended in the runs of the queries' specification.
QueryEvents ==
    {MonitorEvent(1, Epoch - Minute),
     StoredEvent(2, Stamp("naive", Epoch), NoStamp),
     StoredEvent(3, NoStamp, Stamp("naive", Epoch - Minute)),
     StoredEvent(4, Stamp("text", 0), NoStamp),
     StoredEvent(5, NoStamp, NoStamp)}

\* Lines 24-38: the events of the complete lines of the file, in file
\* order.  json.loads gives back the dictionary json.dumps was given (text,
\* integers and None survive the round trip); the file holds only what
\* append wrote, so no line is blank or unreadable.
ReadAll(file) ==
    [k \in 1..(Len(file) \div 2) |-> file[2 * k - 1].ev]

\* Python's events[-limit:] for limit # 0.
Slice(evs, limit) ==
    IF limit > 0
    THEN SubSeq(evs, Len(evs) - limit + 1, Len(evs))
    ELSE SubSeq(evs, (0 - limit) + 1, Len(evs))

\* Line 42.
RecentOf(evs, limit) ==
    IF limit # 0 /\ Len(evs) > limit THEN Slice(evs, limit) ELSE evs

\* Lines 53, 68: ev.get('ts_iso') or ev.get('ts').
TsOf(ev) == IF ev.ts_iso.kind # "none" THEN ev.ts_iso ELSE ev.ts

\* Lines 47-48, 55, 70: datetime.fromisoformat after 'Z' became '+00:00'.
\* ok is FALSE where it raises; aware tells whether the datetime has a zone.
FromIso(ts) ==
    CASE ts.kind = "z"     -> [ok |-> TRUE,  aware |-> TRUE,  t |-> ts.t]
      [] ts.kind = "naive" -> [ok |-> TRUE,  aware |-> FALSE, t |-> ts.t]
      [] OTHER             -> [ok |-> FALSE, aware |-> FALSE, t |-> 0]

\* Line 58, start <= dt <= end: comparing a datetime that has a zone with
\* one that has none raises TypeError; the second comparison is made only
\* when the first is true.
RangeTest(start, dt, end) ==
    IF start.aware # dt.aware THEN "raise"
    ELSE IF ~(start.t <= dt.t) THEN "out"
    ELSE IF dt.aware # end.aware THEN "raise"
    ELSE IF dt.t <= end.t THEN "in" ELSE "out"

\* Lines 52-59 for one event.
RangeVerdict(ev, start, end) ==
    IF ~FromIso(TsOf(ev)).ok THEN "skip"
    ELSE RangeTest(start, FromIso(TsOf(ev)), end)

\* Lines 44-60.  raised: the call ended by an exception.
RangeOf(evs, from_iso, to_iso) ==
    LET start == FromIso(from_iso)
        end   == FromIso(to_iso)
    IN  IF ~start.ok \/ ~end.ok THEN [raised |-> FALSE, value |-> <<>>]
        ELSE IF \E k \in DOMAIN evs :
                    RangeVerdict(evs[k], start, end) = "raise"
        THEN [raised |-> TRUE, value |-> <<>>]
        ELSE [raised |-> FALSE,
              value  |-> SelectSeq(evs,
                             LAMBDA ev : RangeVerdict(ev, start, end) = "in")]

\* Lines 75-81.
Projection(ev) ==
    [ts_iso |-> ev.ts_iso, duration_ms |-> ev.duration_ms,
     frames_count |-> ev.frames_count, description |-> ev.description,
     confidence_hint |-> ev.confidence_hint]

Reverse(seq) == [k \in 1..Len(seq) |-> seq[Len(seq) + 1 - k]]

\* Lines 67-83 from event i downwards.  cutoff comes from utcnow() and has
\* no zone, so dt >= cutoff raises TypeError for a dt that has one.
RECURSIVE ContextScan(_, _, _, _, _)
ContextScan(evs, i, selected, cutoff, limit) ==
    IF i = 0 THEN [raised |-> FALSE, selected |-> selected]
    ELSE LET dt == FromIso(TsOf(evs[i]))
         IN  IF ~dt.ok
             THEN ContextScan(evs, i - 1, selected, cutoff, limit)
             ELSE IF dt.aware
             THEN [raised |-> TRUE, selected |-> selected]
             ELSE IF dt.t >= cutoff
             THEN LET more == Append(selected, Projection(evs[i]))
                  IN  IF Len(more) >= limit
                      THEN [raised |-> FALSE, selected |-> more]
                      ELSE ContextScan(evs, i - 1, more, cutoff, limit)
             ELSE ContextScan(evs, i - 1, selected, cutoff, limit)

\* Lines 62-90.
ContextOf(evs, utcnow, window_minutes, limit) ==
    LET scan == ContextScan(evs, Len(evs), <<>>,
                            utcnow - window_minutes * Minute, limit)
    IN  IF scan.raised THEN [raised |-> TRUE, value |-> <<>>]
        ELSE [raised |-> FALSE,
              value  |-> [window_minutes |-> window_minutes,
                          limit  |-> limit,
                          count  |-> Len(scan.selected),
                          events |-> Reverse(scan.selected)]]

\* A query, its arguments, and how it ended.
Queried(op, args, result) ==
    [op |-> op, args |-> args, raised |-> result.raised,
     value |-> result.value]

NoQuery == Queried("none", <<>>, [raised |-> FALSE, value |-> <<>>])

\* Lines 18-22 run by a thread that is alone in the store: the whole line
\* of the event reaches the end of the file.
AppendEvent(event) ==
    /\ store_lock = 0
    /\ \A t \in Callers : store_caller[t].pc = "idle"
    /\ store_file' = store_file \o LineOf(event)
    /\ UNCHANGED <<store_lock, store_caller>>
    /\ UNCHANGED outsideStore

Recent(limit) ==
    /\ store_lock = 0
    /\ query_ret' = Queried("recent", [limit |-> limit],
                            [raised |-> FALSE,
                             value  |-> RecentOf(ReadAll(store_file), limit)])
    /\ UNCHANGED outsideQueries

Range(from_iso, to_iso) ==
    /\ store_lock = 0
    /\ query_ret' = Queried("range",
                            [from_iso |-> from_iso, to_iso |-> to_iso],
                            RangeOf(ReadAll(store_file), from_iso, to_iso))
    /\ UNCHANGED outsideQueries

Context(window_minutes, limit) ==
    /\ store_lock = 0
    /\ query_ret' = Queried("context",
                            [window_minutes |-> window_minutes,
                             limit |-> limit, utcnow |-> now],
                            ContextOf(ReadAll(store_file), now,
                                      window_minutes, limit))
    /\ UNCHANGED outsideQueries

----------------------------------------------------------------------------
(* WaldoLogWebSocketHub, src/ws_log_server.py.  The websockets package is
   taken to be importable (line 53 is not taken). *)

\* Two subscribers: one whose connection may fail, and another beside it.
Subscribers == {1, 2}

\* How a call of the publisher ended.
HubReturned(op, msg, outcome) == [op |-> op, msg |-> msg, outcome |-> outcome]

\* hub_thread is "none" before the first start, "starting" from
\* Thread.start() until the runner has its loop, "running" in run_forever,
\* "stopping" in the finally block of the runner, "dead" after it.
HubThreadAlive == hub_thread \in {"starting", "running", "stopping"}

\* The loop is running callbacks: in run_forever, or in the
\* run_until_complete of line 70.
HubLoopTurns == hub_loop \in {"running", "stopped"}

\* Lines 52-75: a runner thread is started.
HubStart ==
    /\ ~HubThreadAlive
    /\ hub_thread' = "starting"
    /\ hub_starts' = hub_starts + 1
    /\ hub_ret' = HubReturned("start", 0, "started")
    /\ UNCHANGED <<hub_loop, hub_clients, hub_broken, hub_tasks, hub_pending,
                   hub_received, hub_failed, hub_n>>
    /\ UNCHANGED outsideHub

\* Lines 56-57: the runner thread is alive, start returns True.
HubStartAgain ==
    /\ HubThreadAlive
    /\ hub_ret' = HubReturned("start", 0, "alive")
    /\ UNCHANGED <<hub_loop, hub_thread, hub_clients, hub_broken, hub_tasks,
                   hub_pending, hub_received, hub_failed,
                   hub_n, hub_starts>>
    /\ UNCHANGED outsideHub

\* Lines 60-67: the runner makes its loop, serves, and runs it.  The calls
\* scheduled on an earlier loop are gone with that loop.
HubRunnerBegins ==
    /\ hub_thread = "starting"
    /\ hub_thread' = "running"
    /\ hub_loop' = "running"
    /\ hub_tasks' = <<>>
    /\ UNCHANGED <<hub_clients, hub_broken, hub_pending, hub_received,
                   hub_failed, hub_n, hub_starts, hub_ret>>
    /\ UNCHANGED outsideHub

\* Lines 60-64: websockets.serve raises (the port is taken); the thread ends
\* and self.loop is left referring to a loop that never runs.
HubServeFails ==
    /\ hub_thread = "starting"
    /\ hub_thread' = "dead"
    /\ hub_loop' = "stalled"
    /\ hub_tasks' = <<>>
    /\ UNCHANGED <<hub_clients, hub_broken, hub_pending, hub_received,
                   hub_failed, hub_n, hub_starts, hub_ret>>
    /\ UNCHANGED outsideHub

\* Lines 77-82: loop.stop is scheduled.  On a running loop run_forever
\* returns; on a closed loop call_soon_threadsafe raises and line 81 catches
\* it; on a loop that never runs the callback waits for ever.
HubStop ==
    /\ hub_loop' = IF hub_loop = "running" THEN "stopped" ELSE hub_loop
    /\ hub_thread' = IF hub_loop = "running" THEN "stopping" ELSE hub_thread
    /\ hub_ret' = HubReturned("stop", 0,
                              CASE hub_loop = "none"   -> "no_loop"
                                [] hub_loop = "closed" -> "swallowed"
                                [] OTHER               -> "scheduled")
    /\ UNCHANGED <<hub_clients, hub_broken, hub_tasks, hub_pending,
                   hub_received, hub_failed,
                   hub_n, hub_starts>>
    /\ UNCHANGED outsideHub

\* Lines 68-71: the server and its connections are closed, the handlers
\* leave (line 29), and the loop is closed with what was still scheduled.
HubRunnerEnds ==
    /\ hub_thread = "stopping"
    /\ hub_thread' = "dead"
    /\ hub_loop' = "closed"
    /\ hub_clients' = {}
    /\ hub_broken' = {}
    /\ hub_tasks' = <<>>
    /\ hub_pending' = [c \in Subscribers |-> <<>>]
    /\ UNCHANGED <<hub_received, hub_failed,
                   hub_n, hub_starts, hub_ret>>
    /\ UNCHANGED outsideHub

\* broadcast() letting the error of a closed loop reach the publisher.
BroadcastUncaught(loop, serialisable) ==
    CASE loop = "none"   -> "dropped"
      [] ~serialisable   -> "raised"
      [] loop = "closed" -> "raised"
      [] OTHER           -> "scheduled"

\* Lines 43-50: how broadcast() ends.  Without a loop the message is
\* dropped (44-45); json.dumps raising, and run_coroutine_threadsafe raising
\* on a closed loop, are caught at line 49; otherwise the call is scheduled
\* and broadcast() returns without waiting for it.
BroadcastOutcome(loop, serialisable) ==
    CASE loop = "none"   -> "dropped"
      [] ~serialisable   -> "swallowed"
      [] loop = "closed" -> "swallowed"
      [] OTHER           -> "scheduled"

\* Lines 43-50.
HubBroadcast(serialisable) ==
    LET msg     == hub_n + 1
        outcome == BroadcastOutcome(hub_loop, serialisable)
    IN  /\ hub_n' = msg
        /\ hub_ret' = HubReturned("broadcast", msg, outcome)
        /\ hub_tasks' = IF outcome = "scheduled"
                        THEN Append(hub_tasks, msg) ELSE hub_tasks
        /\ UNCHANGED <<hub_loop, hub_thread, hub_clients, hub_broken,
                       hub_pending, hub_received, hub_failed, hub_starts>>
        /\ UNCHANGED outsideHub

\* Line 23: a subscriber connects and its handler registers it.
HubSubscribe(c) ==
    /\ hub_loop = "running"
    /\ c \notin hub_clients
    /\ hub_pending[c] = <<>>
    /\ hub_clients' = hub_clients \cup {c}
    /\ hub_broken' = hub_broken \ {c}
    /\ UNCHANGED <<hub_loop, hub_thread, hub_tasks, hub_pending,
                   hub_received, hub_failed, hub_n, hub_starts, hub_ret>>
    /\ UNCHANGED outsideHub

\* The connection of a subscriber fails; its handler has not left yet.
HubDisconnect(c) ==
    /\ HubLoopTurns
    /\ c \in hub_clients \ hub_broken
    /\ hub_broken' = hub_broken \cup {c}
    /\ UNCHANGED <<hub_loop, hub_thread, hub_clients, hub_tasks, hub_pending,
                   hub_received, hub_failed,
                   hub_n, hub_starts, hub_ret>>
    /\ UNCHANGED outsideHub

\* Lines 26-29: the handler of a failed connection leaves.
HubHandlerExit(c) ==
    /\ HubLoopTurns
    /\ c \in hub_clients \cap hub_broken
    /\ hub_clients' = hub_clients \ {c}
    /\ UNCHANGED <<hub_loop, hub_thread, hub_broken, hub_tasks, hub_pending,
                   hub_received, hub_failed,
                   hub_n, hub_starts, hub_ret>>
    /\ UNCHANGED outsideHub

\* Lines 31-41 up to the await: the loop runs the next scheduled call, which
\* starts a send to every subscriber registered at that moment.
HubRunBroadcast ==
    /\ HubLoopTurns
    /\ hub_tasks # <<>>
    /\ hub_tasks' = Tail(hub_tasks)
    /\ hub_pending' = [c \in Subscribers |->
                          IF c \in hub_clients
                          THEN Append(hub_pending[c], Head(hub_tasks))
                          ELSE hub_pending[c]]
    /\ UNCHANGED <<hub_loop, hub_thread, hub_clients, hub_broken,
                   hub_received, hub_failed,
                   hub_n, hub_starts, hub_ret>>
    /\ UNCHANGED outsideHub

\* The oldest send to a subscriber whose connection works completes.
HubSendDone(c) ==
    /\ HubLoopTurns
    /\ hub_pending[c] # <<>>
    /\ c \notin hub_broken
    /\ hub_received' = [hub_received EXCEPT ![c] =
                           Append(@, Head(hub_pending[c]))]
    /\ hub_pending' = [hub_pending EXCEPT ![c] = Tail(@)]
    /\ UNCHANGED <<hub_loop, hub_thread, hub_clients, hub_broken, hub_tasks,
                   hub_failed, hub_n, hub_starts, hub_ret>>
    /\ UNCHANGED outsideHub

\* A gather that gives up the other sends of the message when one fails.
GatherCancelsOthers(pending, c) ==
    [d \in Subscribers |->
        IF d = c THEN Tail(pending[d])
        ELSE SelectSeq(pending[d], LAMBDA m : m # Head(pending[c]))]

\* Line 41, gather(..., return_exceptions=True): the exception of the send
\* to c becomes its result; the other sends go on.
GatherAfterFailure(pending, c) == [pending EXCEPT ![c] = Tail(@)]

\* The oldest send to a subscriber whose connection has failed raises.
HubSendFails(c) ==
    /\ HubLoopTurns
    /\ hub_pending[c] # <<>>
    /\ c \in hub_broken
    /\ hub_pending' = GatherAfterFailure(hub_pending, c)
    /\ hub_failed' = [hub_failed EXCEPT ![c] =
                         Append(@, Head(hub_pending[c]))]
    /\ UNCHANGED <<hub_loop, hub_thread, hub_clients, hub_broken, hub_tasks,
                   hub_received, hub_n, hub_starts, hub_ret>>
    /\ UNCHANGED outsideHub

\* Subscribers connect in the order of their numbers, and one whose
\* connection failed does not come back while the loop lives.
NextHub ==
    \/ hub_starts < MaxHubStarts /\ HubStart
    \/ HubStartAgain
    \/ HubRunnerBegins
    \/ HubServeFails
    \/ HubStop
    \/ HubRunnerEnds
    \/ \E serialisable \in BOOLEAN :
          hub_n < MaxBroadcasts /\ HubBroadcast(serialisable)
    \/ \E c \in Subscribers :
          /\ c \notin hub_broken
          /\ \A d \in 1..(c - 1) : d \in hub_clients \cup hub_broken
          /\ HubSubscribe(c)
    \/ \E c \in Subscribers : HubDisconnect(c)
    \/ \E c \in Subscribers : HubHandlerExit(c)
    \/ HubRunBroadcast
    \/ \E c \in Subscribers : HubSendDone(c)
    \/ \E c \in Subscribers : HubSendFails(c)

----------------------------------------------------------------------------
(* IngestPublisher, src/ingest_publisher.py.  The producers are the monitor
   threads (continuous_waldo_monitor.py line 149). *)

Senders == 1..MaxSenders

\* How a call of start, stop or enqueue ended.
RelayReturned(op, who, item, outcome) ==
    [op |-> op, who |-> who, item |-> item, outcome |-> outcome]

\* A sender thread before Thread.start().  frame is the frame it holds,
\* hello how the hello message fared on the connection it has.
UnbornSender == [pc |-> "unborn", frame |-> 0, hello |-> "none"]

\* A monitor thread outside enqueue.
IdleProducer == [pc |-> "idle", item |-> 0]

\* Thread.is_alive().
SenderAlive(s) == relay_sender[s].pc \notin {"unborn", "dead"}

\* Line 32: self.thread and self.thread.is_alive().
ThreadAlive == IF relay_thread = 0 THEN FALSE ELSE SenderAlive(relay_thread)

\* Lines 29-31: start of a relay that is not enabled.
RelayStartDisabled ==
    /\ ~relay_enabled
    /\ relay_ret' = RelayReturned("start", 0, 0, "disabled")
    /\ UNCHANGED <<relay_enabled, relay_q, relay_stop_flag, relay_thread,
                   relay_sender, relay_producer, relay_n, relay_taken,
                   relay_failures>>
    /\ UNCHANGED outsideRelay

\* start() making a new sender thread beside the one that is alive.
RelayStartSpawns(s) ==
    /\ relay_enabled
    /\ ThreadAlive
    /\ relay_sender[s].pc = "unborn"
    /\ relay_stop_flag' = FALSE
    /\ relay_sender' = [relay_sender EXCEPT ![s].pc = "top"]
    /\ relay_thread' = s
    /\ relay_ret' = RelayReturned("start", 0, 0, "started")
    /\ UNCHANGED <<relay_enabled, relay_q, relay_producer, relay_n,
                   relay_taken, relay_failures>>
    /\ UNCHANGED outsideRelay

\* Lines 32-33: the sender thread is alive, start returns True.  s is the
\* thread a start would have made; none is made.
RelayStartAgain(s) ==
    /\ relay_enabled
    /\ ThreadAlive
    /\ relay_ret' = RelayReturned("start", 0, 0, "alive")
    /\ UNCHANGED <<relay_enabled, relay_q, relay_stop_flag, relay_thread,
                   relay_sender, relay_producer, relay_n, relay_taken,
                   relay_failures>>
    /\ UNCHANGED outsideRelay

\* Lines 28-33, 66-70: stop_flag is cleared and sender thread s is started.
RelayStart(s) ==
    /\ relay_enabled
    /\ ~ThreadAlive
    /\ relay_sender[s].pc = "unborn"
    /\ relay_stop_flag' = FALSE
    /\ relay_sender' = [relay_sender EXCEPT ![s].pc = "top"]
    /\ relay_thread' = s
    /\ relay_ret' = RelayReturned("start", 0, 0, "started")
    /\ UNCHANGED <<relay_enabled, relay_q, relay_producer, relay_n,
                   relay_taken, relay_failures>>
    /\ UNCHANGED outsideRelay

\* Lines 72-79: stop_flag is set; join(timeout=2) returns whether or not the
\* thread has ended.
RelayStop ==
    /\ relay_stop_flag' = TRUE
    /\ relay_ret' = RelayReturned("stop", 0, 0, "stopped")
    /\ UNCHANGED <<relay_enabled, relay_q, relay_thread, relay_sender,
                   relay_producer, relay_n, relay_taken, relay_failures>>
    /\ UNCHANGED outsideRelay

\* Line 36: the test of the outer loop; the thread ends when stop_flag is
\* set, otherwise it goes on to connect.
SenderTop(s) ==
    /\ relay_sender[s].pc = "top"
    /\ relay_sender' = [relay_sender EXCEPT ![s].pc =
                           IF relay_stop_flag THEN "dead" ELSE "connecting"]
    /\ UNCHANGED <<relay_enabled, relay_q, relay_stop_flag, relay_thread,
                   relay_producer, relay_n, relay_taken, relay_failures,
                   relay_ret>>
    /\ UNCHANGED outsideRelay

\* Lines 41-45: the connection is made and the hello message is sent.
SenderConnects(s) ==
    /\ relay_sender[s].pc = "connecting"
    /\ relay_sender' = [relay_sender EXCEPT ![s].pc = "streaming",
                                            ![s].hello = "sent"]
    /\ UNCHANGED <<relay_enabled, relay_q, relay_stop_flag, relay_thread,
                   relay_producer, relay_n, relay_taken, relay_failures,
                   relay_ret>>
    /\ UNCHANGED outsideRelay

\* Lines 41-47: the connection is made and sending the hello message
\* raises; the exception is passed over and the streaming loop is entered.
SenderHelloFails(s) ==
    /\ relay_sender[s].pc = "connecting"
    /\ relay_sender' = [relay_sender EXCEPT ![s].pc = "streaming",
                                            ![s].hello = "failed"]
    /\ UNCHANGED <<relay_enabled, relay_q, relay_stop_flag, relay_thread,
                   relay_producer, relay_n, relay_taken, relay_failures,
                   relay_ret>>
    /\ UNCHANGED outsideRelay

\* Lines 41, 62-64: connecting raises; the thread logs and sleeps 2 s.
SenderConnectFails(s) ==
    /\ relay_sender[s].pc = "connecting"
    /\ relay_sender' = [relay_sender EXCEPT ![s].pc = "backoff"]
    /\ relay_failures' = relay_failures + 1
    /\ UNCHANGED <<relay_enabled, relay_q, relay_stop_flag, relay_thread,
                   relay_producer, relay_n, relay_taken, relay_ret>>
    /\ UNCHANGED outsideRelay

\* Line 64: the sleep ends, back to the test of line 36.
SenderBackoffEnds(s) ==
    /\ relay_sender[s].pc = "backoff"
    /\ relay_sender' = [relay_sender EXCEPT ![s].pc = "top"]
    /\ UNCHANGED <<relay_enabled, relay_q, relay_stop_flag, relay_thread,
                   relay_producer, relay_n, relay_taken, relay_failures,
                   relay_ret>>
    /\ UNCHANGED outsideRelay

\* Lines 49-54: the test of the streaming loop.  With stop_flag set run()
\* returns, the connection is closed and the thread is back at line 36;
\* otherwise the oldest frame is taken from the queue (an empty queue leaves
\* the thread where it is).
SenderStream(s) ==
    /\ relay_sender[s].pc = "streaming"
    /\ relay_stop_flag \/ relay_q # <<>>
    /\ IF relay_stop_flag
       THEN /\ relay_sender' = [relay_sender EXCEPT ![s].pc = "top",
                                                     ![s].hello = "none"]
            /\ UNCHANGED <<relay_q, relay_taken>>
       ELSE /\ relay_sender' = [relay_sender EXCEPT ![s] =
                                   [relay_sender[s] EXCEPT
                                       !.pc = "sending",
                                       !.frame = Head(relay_q)]]
            /\ relay_q' = Tail(relay_q)
            /\ relay_taken' = relay_taken + 1
    /\ UNCHANGED <<relay_enabled, relay_stop_flag, relay_thread,
                   relay_producer, relay_n, relay_failures, relay_ret>>
    /\ UNCHANGED outsideRelay

\* Line 56: the frame is sent.
SenderSendDone(s) ==
    /\ relay_sender[s].pc = "sending"
    /\ relay_sender' = [relay_sender EXCEPT ![s] =
                           [relay_sender[s] EXCEPT !.pc = "streaming",
                                                   !.frame = 0]]
    /\ UNCHANGED <<relay_enabled, relay_q, relay_stop_flag, relay_thread,
                   relay_producer, relay_n, relay_taken, relay_failures,
                   relay_ret>>
    /\ UNCHANGED outsideRelay

\* A sender that ends its thread when a send fails.
SenderGivesUp(s) ==
    /\ relay_sender[s].pc = "sending"
    /\ relay_sender' = [relay_sender EXCEPT ![s] =
                           [pc |-> "dead", frame |-> 0, hello |-> "none"]]
    /\ relay_failures' = relay_failures + 1
    /\ UNCHANGED <<relay_enabled, relay_q, relay_stop_flag, relay_thread,
                   relay_producer, relay_n, relay_taken, relay_ret>>
    /\ UNCHANGED outsideRelay

\* Lines 56-59, 61: the send raises; the streaming loop is left, the
\* connection is closed by the async with, run() returns and the thread is
\* back at line 36.  The frame is gone.
SenderSendFails(s) ==
    /\ relay_sender[s].pc = "sending"
    /\ relay_sender' = [relay_sender EXCEPT ![s] =
                           [pc |-> "top", frame |-> 0, hello |-> "none"]]
    /\ relay_failures' = relay_failures + 1
    /\ UNCHANGED <<relay_enabled, relay_q, relay_stop_flag, relay_thread,
                   relay_producer, relay_n, relay_taken, relay_ret>>
    /\ UNCHANGED outsideRelay

\* put_nowait admitting an item whatever the length of the queue.
PutUnbounded(q, item) == [ok |-> TRUE, q |-> Append(q, item)]

\* Lines 85, 93: Queue.put_nowait; ok is FALSE where it raises queue.Full.
PutNowait(q, item) ==
    IF Len(q) < maxsize THEN [ok |-> TRUE, q |-> Append(q, item)]
    ELSE [ok |-> FALSE, q |-> q]

\* Lines 81-86: enqueue is called.  A relay that is not enabled returns at
\* once; otherwise the item is put, or the queue is found full.
Enqueue(p) ==
    LET item == relay_n + 1
        put  == PutNowait(relay_q, item)
    IN  /\ relay_producer[p].pc = "idle"
        /\ relay_n' = item
        /\ IF ~relay_enabled
           THEN /\ relay_ret' = RelayReturned("enqueue", p, item, "disabled")
                /\ UNCHANGED <<relay_q, relay_producer>>
           ELSE IF put.ok
           THEN /\ relay_q' = put.q
                /\ relay_ret' = RelayReturned("enqueue", p, item, "admitted")
                /\ UNCHANGED relay_producer
           ELSE /\ relay_producer' = [relay_producer EXCEPT ![p] =
                                         [pc |-> "full", item |-> item]]
                /\ UNCHANGED <<relay_q, relay_ret>>
        /\ UNCHANGED <<relay_enabled, relay_stop_flag, relay_thread,
                       relay_sender, relay_taken, relay_failures>>
        /\ UNCHANGED outsideRelay

\* Lines 88-91: get_nowait drops the oldest item; an empty queue is passed
\* over.
EnqueueDrop(p) ==
    /\ relay_producer[p].pc = "full"
    /\ relay_q' = IF relay_q = <<>> THEN relay_q ELSE Tail(relay_q)
    /\ relay_producer' = [relay_producer EXCEPT ![p].pc = "retry"]
    /\ UNCHANGED <<relay_enabled, relay_stop_flag, relay_thread, relay_sender,
                   relay_n, relay_taken, relay_failures, relay_ret>>
    /\ UNCHANGED outsideRelay

\* Lines 92-95: the item is put again; queue.Full is passed over and the
\* item is gone.  enqueue returns.
EnqueueRetry(p) ==
    LET item == relay_producer[p].item
        put  == PutNowait(relay_q, item)
    IN  /\ relay_producer[p].pc = "retry"
        /\ relay_q' = put.q
        /\ relay_producer' = [relay_producer EXCEPT ![p] = IdleProducer]
        /\ relay_ret' = RelayReturned("enqueue", p, item,
                                      IF put.ok THEN "admitted" ELSE "lost")
        /\ UNCHANGED <<relay_enabled, relay_stop_flag, relay_thread,
                       relay_sender, relay_n, relay_taken, relay_failures>>
        /\ UNCHANGED outsideRelay

\* The queue under the monitor threads and one sender that takes at most
\* MaxSends frames and meets no failure.
NextRelayQueue ==
    \/ \E s \in Senders : relay_thread = 0 /\ RelayStart(s)
    \/ \E s \in Senders : SenderTop(s)
    \/ \E s \in Senders : SenderConnects(s)
    \/ \E s \in Senders : relay_taken < MaxSends /\ SenderStream(s)
    \/ \E s \in Senders : SenderSendDone(s)
    \/ \E p \in Workers : relay_n < MaxEnqueues /\ Enqueue(p)
    \/ \E p \in Workers : EnqueueDrop(p)
    \/ \E p \in Workers : EnqueueRetry(p)

\* The steps of sender thread s in the relay lifecycle's specification.
SenderRun(s) ==
    \/ SenderTop(s)
    \/ SenderConnects(s)
    \/ SenderHelloFails(s)
    \/ relay_failures < MaxFailures /\ SenderConnectFails(s)
    \/ SenderBackoffEnds(s)
    \/ SenderStream(s)
    \/ SenderSendDone(s)
    \/ relay_failures < MaxFailures /\ SenderSendFails(s)

\* The calls of start and stop, the sender threads, and a few frames.
NextRelayLife ==
    \/ RelayStartDisabled
    \/ \E s \in Senders : RelayStartAgain(s)
    \/ \E s \in Senders : RelayStart(s)
    \/ RelayStop
    \/ \E s \in Senders : SenderTop(s)
    \/ \E s \in Senders : SenderConnects(s)
    \/ \E s \in Senders : SenderHelloFails(s)
    \/ \E s \in Senders : relay_failures < MaxFailures /\ SenderConnectFails(s)
    \/ \E s \in Senders : SenderBackoffEnds(s)
    \/ \E s \in Senders : SenderStream(s)
    \/ \E s \in Senders : SenderSendDone(s)
    \/ \E s \in Senders : relay_failures < MaxFailures /\ SenderSendFails(s)
    \/ \E p \in Workers : relay_n < MaxLifeEnqueues /\ Enqueue(p)

\* enqueue called by a thread that no other thread of the relay interleaves
\* with (lines 84-95): the item is put, after the oldest item was dropped
\* when the queue was full.
Offer(q, item) ==
    LET put == PutNowait(q, item)
    IN  IF put.ok THEN put.q
        ELSE PutNowait(IF q = <<>> THEN q ELSE Tail(q), item).q

\* A frame that is not handed to the relay.
NotForwarded(w, frame, enqueue_raises) == UNCHANGED relayVars

\* src/continuous_waldo_monitor.py lines 147-152: monitor thread w hands the
\* JPEG of a frame to ingest_publisher.enqueue; an exception of the call is
\* passed over.  A relay that is not enabled returns at once (lines 82-83).
Forward(w, frame, enqueue_raises) ==
    /\ relay_n' = relay_n + 1
    /\ relay_q' = IF relay_enabled /\ ~enqueue_raises
                  THEN Offer(relay_q, frame) ELSE relay_q
    /\ relay_ret' = RelayReturned("enqueue", w, frame,
                        IF enqueue_raises THEN "raised"
                        ELSE IF relay_enabled THEN "admitted" ELSE "disabled")
    /\ UNCHANGED <<relay_enabled, relay_stop_flag, relay_thread,
                   relay_sender, relay_producer, relay_taken, relay_failures>>

\* src/continuous_waldo_monitor.py lines 94-102: initialize() starts the
\* relay when INGEST_ENABLED is set; start() makes a sender thread unless
\* one is alive (lines 28-33, 66-70 of src/ingest_publisher.py).
InitializeRelay ==
    IF ~relay_enabled THEN UNCHANGED relayVars
    ELSE IF ThreadAlive
    THEN /\ relay_ret' = RelayReturned("start", 0, 0, "alive")
         /\ UNCHANGED <<relay_enabled, relay_q, relay_stop_flag,
                        relay_thread, relay_sender, relay_producer, relay_n,
                        relay_taken, relay_failures>>
    ELSE \E s \in Senders :
            /\ relay_sender[s].pc = "unborn"
            /\ \A r \in Senders : relay_sender[r].pc = "unborn" => s <= r
            /\ relay_stop_flag' = FALSE
            /\ relay_sender' = [relay_sender EXCEPT ![s].pc = "top"]
            /\ relay_thread' = s
            /\ relay_ret' = RelayReturned("start", 0, 0, "started")
            /\ UNCHANGED <<relay_enabled, relay_q, relay_producer, relay_n,
                           relay_taken, relay_failures>>

----------------------------------------------------------------------------
(* The monitor threads *)

\* stopped: stop_monitoring was called since the thread was started.
IdleLocals == [pc |-> "loop", current_time |-> 0, frames |-> <<>>,
               count |-> 0, window_ms |-> 0, description |-> None,
               stopped |-> FALSE]

DeadLocals == [IdleLocals EXCEPT !.pc = "dead"]

\* What an API call returned: op is the call, value what it returned, why
\* the branch that returned it.
Returned(op, value, why) == [op |-> op, value |-> value, why |-> why]

NoCall == Returned("none", FALSE, "none")

Init ==
    /\ now = Epoch
    /\ camera_seq = 0
    /\ monitoring = FALSE
    /\ worker = [w \in Workers |-> DeadLocals]
    /\ stats = [frames_processed |-> 0, triggers |-> 0, api_saves |-> 0,
                start_time |-> 0]
    /\ agg_active = FALSE
    /\ agg_start_ts = 0
    /\ agg_last_trigger_ts = 0
    /\ agg_frames_b64 = <<>>
    /\ last_summary_text = None
    /\ last_summary_ts = 0
    /\ events = <<>>
    /\ hub_log = <<>>
    /\ ai_calls = <<>>
    /\ speech_calls = <<>>
    /\ speech_cfg \in {"enabled", "disabled", "missing"}
    /\ oracle_log = <<>>
    /\ append_calls = <<>>
    /\ ret = NoCall
    /\ filter_available \in BOOLEAN
    /\ speech_ret = "none"
    /\ capture_log = <<>>
    /\ store_file = <<>>
    /\ store_lock = 0
    /\ store_caller = [t \in Callers |-> IdleCaller]
    /\ query_ret = NoQuery
    /\ hub_loop = "none"
    /\ hub_thread = "none"
    /\ hub_clients = {}
    /\ hub_broken = {}
    /\ hub_tasks = <<>>
    /\ hub_pending = [c \in Subscribers |-> <<>>]
    /\ hub_received = [c \in Subscribers |-> <<>>]
    /\ hub_failed = [c \in Subscribers |-> <<>>]
    /\ hub_n = 0
    /\ hub_starts = 0
    /\ hub_ret = HubReturned("none", 0, "none")
    /\ relay_enabled \in BOOLEAN
    /\ relay_q = <<>>
    /\ relay_stop_flag = FALSE
    /\ relay_thread = 0
    /\ relay_sender = [s \in Senders |-> UnbornSender]
    /\ relay_producer = [p \in Workers |-> IdleProducer]
    /\ relay_n = 0
    /\ relay_taken = 0
    /\ relay_failures = 0
    /\ relay_ret = RelayReturned("none", 0, 0, "none")

\* Lines 287-290
ResetStats(s) ==
    [s EXCEPT !.frames_processed = 0, !.triggers = 0, !.api_saves = 0]

\* Lines 112-123, 259-263: start_monitoring when initialize() succeeds.
StartMonitoring ==
    /\ ~monitoring
    /\ filter_available
    /\ ret' = Returned("start", TRUE, "started")
    /\ \E w \in Workers :
        /\ worker[w].pc = "dead"
        /\ \A v \in Workers : worker[v].pc = "dead" => w <= v
        /\ worker' = [worker EXCEPT ![w] = IdleLocals]
    /\ InitializeRelay
    /\ monitoring' = TRUE
    /\ stats' = ResetStats([stats EXCEPT !.start_time = now])
    /\ UNCHANGED <<now, camera_seq, agg_active, agg_start_ts,
                   agg_last_trigger_ts, agg_frames_b64, last_summary_text,
                   last_summary_ts, events, append_calls, hub_log, ai_calls, speech_calls, speech_cfg, filter_available,
                   speech_ret, capture_log, outsideMonitorAndRelay,
                   oracle_log>>

\* Lines 265-272: stop_monitoring.
StopMonitoring ==
    /\ monitoring
    /\ monitoring' = FALSE
    /\ ret' = Returned("stop", TRUE, "stopped")
    /\ worker' = [w \in Workers |->
                    IF worker[w].pc = "dead" THEN worker[w]
                    ELSE [worker[w] EXCEPT !.stopped = TRUE]]
    /\ UNCHANGED <<now, camera_seq, stats, agg_active, agg_start_ts,
                   agg_last_trigger_ts, agg_frames_b64, last_summary_text,
                   last_summary_ts, events, append_calls, hub_log, ai_calls, speech_calls, speech_cfg, filter_available,
                   speech_ret, capture_log, outsideMonitor,
                   oracle_log>>

\* StartRefused with the statistics reset before the test of line 114.
StartRefusedResets ==
    /\ monitoring
    /\ ret' = Returned("start", FALSE, "already_active")
    /\ stats' = ResetStats([stats EXCEPT !.start_time = now])
    /\ UNCHANGED <<now, camera_seq, monitoring, worker, agg_active,
                   agg_start_ts, agg_last_trigger_ts, agg_frames_b64,
                   last_summary_text, last_summary_ts, events, append_calls,
                   hub_log, ai_calls, speech_calls, speech_cfg,
                   filter_available, speech_ret, capture_log, outsideMonitor, oracle_log>>

\* Lines 114-116: start_monitoring while monitoring is active.
StartRefused ==
    /\ monitoring
    /\ ret' = Returned("start", FALSE, "already_active")
    /\ UNCHANGED <<now, camera_seq, monitoring, worker, stats, agg_active,
                   agg_start_ts, agg_last_trigger_ts, agg_frames_b64,
                   last_summary_text, last_summary_ts, events, append_calls,
                   hub_log, ai_calls, speech_calls, speech_cfg,
                   filter_available, speech_ret, capture_log, outsideMonitor, oracle_log>>

\* How initialize() fails (lines 80-82, 104-106, 108-110): no camera or a
\* camera that is not open, no FrameChangeDetector, an exception.
InitFailures == {"no_camera", "no_filter", "raised"}

\* StartInitFails with the session set up before initialize() is called.
StartInitFailsAfterSetup(why) ==
    /\ ~monitoring
    /\ why \in InitFailures
    /\ why = "no_filter" => ~filter_available
    /\ ret' = Returned("start", FALSE, why)
    /\ stats' = ResetStats([stats EXCEPT !.start_time = now])
    /\ UNCHANGED <<now, camera_seq, monitoring, worker, agg_active,
                   agg_start_ts, agg_last_trigger_ts, agg_frames_b64,
                   last_summary_text, last_summary_ts, events, append_calls,
                   hub_log, ai_calls, speech_calls, speech_cfg,
                   filter_available, speech_ret, capture_log, outsideMonitor, oracle_log>>

\* Lines 118-119 with 74-110: start_monitoring when initialize() returns
\* False; it returns False for want of the filter only when
\* FILTER_AVAILABLE is False.
StartInitFails(why) ==
    /\ ~monitoring
    /\ why \in InitFailures
    /\ why = "no_filter" => ~filter_available
    /\ ret' = Returned("start", FALSE, why)
    /\ UNCHANGED <<now, camera_seq, monitoring, worker, stats, agg_active,
                   agg_start_ts, agg_last_trigger_ts, agg_frames_b64,
                   last_summary_text, last_summary_ts, events, append_calls,
                   hub_log, ai_calls, speech_calls, speech_cfg,
                   filter_available, speech_ret, capture_log, outsideMonitor, oracle_log>>

\* Lines 267-268: stop_monitoring while monitoring is not active.
StopRefused ==
    /\ ~monitoring
    /\ ret' = Returned("stop", FALSE, "not_active")
    /\ UNCHANGED <<now, camera_seq, monitoring, worker, stats, agg_active,
                   agg_start_ts, agg_last_trigger_ts, agg_frames_b64,
                   last_summary_text, last_summary_ts, events, append_calls,
                   hub_log, ai_calls, speech_calls, speech_cfg,
                   filter_available, speech_ret, capture_log, outsideMonitor, oracle_log>>

\* Lines 128, 257: the loop's condition fails and the thread ends.
WorkerExit(w) ==
    /\ worker[w].pc = "loop"
    /\ ~monitoring
    /\ worker' = [worker EXCEPT ![w] = DeadLocals]
    /\ UNCHANGED <<now, camera_seq, monitoring, ret, stats, agg_active,
                   agg_start_ts, agg_last_trigger_ts, agg_frames_b64,
                   last_summary_text, last_summary_ts, events, append_calls, hub_log,
                   ai_calls, speech_calls, speech_cfg, filter_available,
                   speech_ret, capture_log, outsideMonitor, oracle_log>>

\* Lines 128-137, 247-250: the camera read fails.  Nothing is counted; the
\* failure is logged when frames_processed is a multiple of 30, and the
\* loop goes on.
ReadFail(w) ==
    /\ worker[w].pc = "loop"
    /\ monitoring
    /\ capture_log' = Append(capture_log,
           [seq |-> camera_seq, by |-> w,
            logged |-> stats.frames_processed % LogEvery = 0])
    /\ UNCHANGED <<now, camera_seq, monitoring, ret, worker, stats,
                   agg_active, agg_start_ts, agg_last_trigger_ts,
                   agg_frames_b64, last_summary_text, last_summary_ts,
                   events, append_calls, hub_log, ai_calls, speech_calls,
                   speech_cfg, filter_available, oracle_log, speech_ret,
                   outsideMonitor>>

\* Lines 136-145: a frame is read and its JPEG encoding fails ("continue").
EncodeFail(w, d) ==
    /\ worker[w].pc = "loop"
    /\ monitoring
    /\ now' = now + d
    /\ camera_seq' = camera_seq + 1
    /\ stats' = [stats EXCEPT !.frames_processed = @ + 1]
    /\ oracle_log' = Append(oracle_log,
           [ts |-> now + d, decision |-> "unencoded", by |-> w])
    /\ UNCHANGED <<monitoring, ret, worker, agg_active, agg_start_ts,
                   agg_last_trigger_ts, agg_frames_b64, last_summary_text,
                   last_summary_ts, events, append_calls, hub_log, ai_calls, speech_calls, speech_cfg, filter_available,
                   speech_ret, capture_log, outsideMonitor>>

\* Lines 136-156, 252-255: the oracle raises; the outer handler logs it,
\* sleeps and the loop goes on.
OracleRaise(w, d) ==
    /\ worker[w].pc = "loop"
    /\ monitoring
    /\ now' = now + d
    /\ camera_seq' = camera_seq + 1
    /\ Forward(w, camera_seq + 1, FALSE)
    /\ stats' = [stats EXCEPT !.frames_processed = @ + 1]
    /\ oracle_log' = Append(oracle_log,
           [ts |-> now + d, decision |-> "raised", by |-> w])
    /\ UNCHANGED <<monitoring, ret, worker, agg_active, agg_start_ts,
                   agg_last_trigger_ts, agg_frames_b64, last_summary_text,
                   last_summary_ts, events, append_calls, hub_log, ai_calls, speech_calls, speech_cfg, filter_available,
                   speech_ret, capture_log, outsideMonitorAndRelay>>

\* Lines 128-200: one iteration with a decision from the oracle, up to the
\* AI call of a closing window.  d is the time since the clock was last
\* sampled; enqueue_raises tells whether the call of line 149 raises.
Iterate(w, d, should_trigger, enqueue_raises) ==
    LET current_time == now + d
        frame        == camera_seq + 1
        a            == OnDecision(Agg, should_trigger, current_time, frame)
        duration     == current_time - a.start_ts
    IN  /\ worker[w].pc = "loop"
        /\ monitoring
        /\ now' = current_time
        /\ camera_seq' = frame
        /\ Forward(w, frame, enqueue_raises)
        /\ stats' = CountDecision([stats EXCEPT !.frames_processed = @ + 1],
                                  should_trigger)
        /\ oracle_log' = Append(oracle_log,
               [ts |-> current_time,
                decision |-> IF should_trigger THEN "true" ELSE "false",
                by |-> w])
        /\ agg_active' = a.active
        /\ agg_start_ts' = a.start_ts
        /\ agg_last_trigger_ts' = a.last_trigger_ts
        /\ agg_frames_b64' = a.frames
        /\ IF ShouldClose(a, should_trigger, current_time)
           THEN /\ worker' = [worker EXCEPT ![w] =
                       [pc |-> "analyse", current_time |-> current_time,
                        frames |-> a.frames, count |-> Len(a.frames),
                        window_ms |-> duration, description |-> None,
                        stopped |-> worker[w].stopped]]
                /\ hub_log' = Append(hub_log,
                       [type |-> "waldo_event", frames |-> Len(a.frames),
                        duration_ms |-> duration, ts |-> current_time])
           ELSE UNCHANGED <<worker, hub_log>>
        /\ UNCHANGED <<monitoring, ret, last_summary_text, last_summary_ts,
                       events, append_calls, ai_calls, speech_calls, speech_cfg, filter_available,
                   speech_ret, capture_log, outsideMonitorAndRelay>>

\* An iteration whose call of ingest_publisher.enqueue returns.
ProcessFrame(w, d, should_trigger) == Iterate(w, d, should_trigger, FALSE)

\* Lines 148-152: an iteration whose call of ingest_publisher.enqueue
\* raises.
ProcessFrameRelayRaises(w, d, should_trigger) ==
    Iterate(w, d, should_trigger, TRUE)

\* What the analysis of a closing frame can come to: the decode raises, the
\* AI call raises, or the AI call returns a text, an empty text or None.
AnalysisResults == {"decode_error", "ai_error", None, ""} \cup Descriptions

\* Lines 204-210: the description the try block leaves behind.
DescriptionOf(frames, result) ==
    IF frames = <<>> \/ result \in {"decode_error", "ai_error"}
    THEN None ELSE result

\* Lines 213-226: the record handed to event_store.append.
EventRecord(start_ts, window_ms, count, description) ==
    [type |-> "waldo_event", ts_ms |-> start_ts, duration_ms |-> window_ms,
     frames_count |-> count, description |-> description,
     source |-> "waldo_monitor"]

\* Lines 201-246: the AI call of a closing window returns (or raises), the
\* event is appended, and the novelty filter decides; the thread goes on to
\* the speech call, or clears the window and loops, or leaves the block by
\* the KeyError of line 229 (caught at line 252, the window left as it is).
Analyse(w, result, store_ok) ==
    LET me          == worker[w]
        description == DescriptionOf(me.frames, result)
        speaking    == /\ Truthy(description)
                       /\ speech_cfg = "enabled"
                       /\ ~Suppress(description, me.current_time,
                                    last_summary_text, last_summary_ts)
        key_error   == Truthy(description) /\ speech_cfg = "missing"
        novelty     == NoveltyState(FALSE, description, me.current_time,
                                    last_summary_text, last_summary_ts)
        cleared     == IF speaking \/ key_error THEN Agg ELSE ClearWindow(Agg)
    IN  /\ me.pc = "analyse"
        /\ ai_calls' = IF me.frames # <<>> /\ result # "decode_error"
                       THEN Append(ai_calls,
                                [frame  |-> me.frames[Len(me.frames)],
                                 window |-> agg_start_ts,
                                 at     |-> me.current_time])
                       ELSE ai_calls
        /\ events' = IF store_ok
                     THEN Append(events, EventRecord(agg_start_ts,
                                  me.window_ms, me.count, description))
                     ELSE events
        /\ append_calls' = Append(append_calls,
               [record |-> EventRecord(agg_start_ts, me.window_ms, me.count,
                                       description),
                ok |-> store_ok])
        /\ worker' = [worker EXCEPT ![w] =
                        IF speaking
                        THEN [me EXCEPT !.pc = "speak",
                                        !.description = description]
                        ELSE [IdleLocals EXCEPT !.stopped = me.stopped]]
        /\ speech_calls' = IF speaking
                           THEN Append(speech_calls,
                                    [text |-> description,
                                     ts   |-> me.current_time])
                           ELSE speech_calls
        /\ last_summary_text' = novelty.text
        /\ last_summary_ts' = novelty.ts
        /\ agg_active' = cleared.active
        /\ agg_frames_b64' = cleared.frames
        /\ UNCHANGED <<now, camera_seq, monitoring, ret, stats, agg_start_ts,
                       agg_last_trigger_ts, hub_log, speech_cfg, filter_available,
                   speech_ret, capture_log, outsideMonitor, oracle_log>>

\* Lines 240-246: the call of speak_description ends: it returns True
\* ("spoken") or False ("failed"), which the monitor does not look at, and
\* the novelty state is overwritten (241-242); or it raises ("raised"), and
\* the handler of line 243 leaves the novelty state as it is.  The window is
\* cleared in every case.
SpeakEnds(w, outcome) ==
    LET me      == worker[w]
        novelty == NoveltyState(outcome # "raised", me.description,
                                me.current_time,
                                last_summary_text, last_summary_ts)
        cleared == ClearWindow(Agg)
    IN  /\ me.pc = "speak"
        /\ speech_ret' = outcome
        /\ last_summary_text' = novelty.text
        /\ last_summary_ts' = novelty.ts
        /\ agg_active' = cleared.active
        /\ agg_frames_b64' = cleared.frames
        /\ worker' = [worker EXCEPT ![w] =
                        [IdleLocals EXCEPT !.stopped = me.stopped]]
        /\ UNCHANGED <<now, camera_seq, monitoring, ret, stats, agg_start_ts,
                       agg_last_trigger_ts, events, append_calls, hub_log, ai_calls,
                       speech_calls, speech_cfg, filter_available,
                   capture_log, outsideMonitor, oracle_log>>

\* speak_description returns True: the description was spoken.
Speak(w) == SpeakEnds(w, "spoken")

\* src/corpus_vision.py lines 194-204: speak_description returns False, the
\* speech service having answered with an error or not at all.
SpeakFails(w) == SpeakEnds(w, "failed")

\* The call of line 240 raises (in speak_description only line 191 is
\* outside its try) and the handler of line 243 logs the error.
SpeakRaises(w) == SpeakEnds(w, "raised")

\* No monitor thread is alive.
AllEnded == \A w \in Workers : worker[w].pc = "dead"

\* start_monitoring called once the thread of the session before has ended
\* (stop_monitoring's join returned before its timeout).
SequentialStart == AllEnded /\ StartMonitoring

\* start_monitoring called after a stop_monitoring whose join (line 272,
\* timeout 2 s) returned: the thread of the session before has ended, or is
\* still in the AI or speech call of a closed window.
StartAfterStop ==
    /\ \A w \in Workers : worker[w].pc # "loop"
    /\ StartMonitoring

\* Inputs of the window's timing: at, just over and far over the quiet
\* threshold; an analysis that fails or returns a text.
AggDeltas == {250, 300, 4700}

AggResults == {"ai_error", D1}

Next ==
    \/ SequentialStart
    \/ StopMonitoring
    \/ \E w \in Workers : WorkerExit(w)
    \/ /\ camera_seq < MaxFrames
       /\ \E w \in Workers, d \in AggDeltas, t \in BOOLEAN :
             ProcessFrame(w, d, t)
    \/ \E w \in Workers, r \in AggResults, ok \in BOOLEAN : Analyse(w, r, ok)
    \/ \E w \in Workers : Speak(w)

\* The monitor beside an enabled relay.
InitMonitor == Init /\ relay_enabled

Spec == InitMonitor /\ [][Next]_vars

\* Inputs of the novelty filter, in one session: closes a short time and
\* just under a novelty window apart; texts that are alike, unlike or empty;
\* speech enabled or disabled.
NoveltyDeltas == {300, 59400}

NoveltyResults == {""} \cup Descriptions

NextNovelty ==
    \/ SequentialStart
    \/ /\ camera_seq < MaxNoveltyFrames
       /\ \E w \in Workers, d \in NoveltyDeltas, t \in BOOLEAN :
             ProcessFrame(w, d, t)
    \/ \E w \in Workers, r \in NoveltyResults : Analyse(w, r, TRUE)
    \/ \E w \in Workers : Speak(w)

InitNovelty ==
    Init /\ speech_cfg \in {"enabled", "disabled"} /\ relay_enabled

SpecNovelty == InitNovelty /\ [][NextNovelty]_vars

\* Inputs of the failure paths, in one session: an oracle that raises, a
\* frame that cannot be encoded, a closing frame that cannot be decoded.
FaultDeltas == {300, 4700}

FaultResults == {"decode_error", D1}

NextFaults ==
    \/ SequentialStart
    \/ /\ camera_seq < MaxFrames
       /\ \E w \in Workers, d \in FaultDeltas, t \in BOOLEAN :
             ProcessFrame(w, d, t)
    \/ /\ camera_seq < MaxFrames
       /\ \E w \in Workers, d \in FaultDeltas : OracleRaise(w, d)
    \/ /\ camera_seq < MaxFrames
       /\ \E w \in Workers, d \in FaultDeltas : EncodeFail(w, d)
    \/ \E w \in Workers, r \in FaultResults : Analyse(w, r, TRUE)
    \/ \E w \in Workers : Speak(w)

InitFaults ==
    Init /\ speech_cfg \in {"enabled", "disabled"} /\ relay_enabled

SpecFaults == InitFaults /\ [][NextFaults]_vars

\* The calls of the control API in any order, sessions that follow one
\* another and sessions started while a thread of the one before is alive.
SessionDeltas == {300}

SessionResults == {D1}

NextSessions ==
    \/ StartAfterStop
    \/ StartRefused
    \/ \E why \in InitFailures : StartInitFails(why)
    \/ StopMonitoring
    \/ StopRefused
    \/ \E w \in Workers : WorkerExit(w)
    \/ /\ camera_seq < MaxFrames
       /\ \E w \in Workers, d \in SessionDeltas, t \in BOOLEAN :
             ProcessFrame(w, d, t)
    \/ \E w \in Workers, r \in SessionResults : Analyse(w, r, TRUE)
    \/ \E w \in Workers : Speak(w)

InitSessions == Init /\ speech_cfg = "enabled" /\ relay_enabled

SpecSessions == InitSessions /\ [][NextSessions]_vars

\* The event store alone, under concurrent callers.
InitStore ==
    Init /\ speech_cfg = "enabled" /\ filter_available /\ relay_enabled

SpecStore == InitStore /\ [][NextStore]_vars

\* The queries of the EventStore over the logs that appends build.
QueryLimits == 0..(MaxLogLen + 1)

QueryBounds == {Stamp("z", Epoch - Minute), Stamp("z", Epoch),
                Stamp("naive", Epoch - Minute), Stamp("naive", Epoch),
                Stamp("text", 0)}

QueryWindows == {1, 2}

NextQueries ==
    \/ \E event \in QueryEvents :
          Len(store_file) < 2 * MaxLogLen /\ AppendEvent(event)
    \/ \E limit \in QueryLimits : Recent(limit)
    \/ \E from_iso, to_iso \in QueryBounds : Range(from_iso, to_iso)
    \/ \E window_minutes \in QueryWindows, limit \in QueryLimits :
          Context(window_minutes, limit)

SpecQueries == InitStore /\ [][NextQueries]_vars

\* The hub, its publisher and its subscribers.
SpecHub == InitStore /\ [][NextHub]_vars

\* The monitor feeding the relay, enabled or not, and its sender: frames
\* the oracle decides, frames it raises on, frames that cannot be encoded
\* and calls of enqueue that raise.
ForwardDeltas == {300}

ForwardResults == {D1}

NextForward ==
    \/ SequentialStart
    \/ /\ camera_seq < MaxFrames
       /\ \E w \in Workers, d \in ForwardDeltas, t \in BOOLEAN :
             ProcessFrame(w, d, t)
    \/ /\ camera_seq < MaxFrames
       /\ \E w \in Workers, d \in ForwardDeltas, t \in BOOLEAN :
             ProcessFrameRelayRaises(w, d, t)
    \/ /\ camera_seq < MaxFrames
       /\ \E w \in Workers, d \in ForwardDeltas : OracleRaise(w, d)
    \/ /\ camera_seq < MaxFrames
       /\ \E w \in Workers, d \in ForwardDeltas : EncodeFail(w, d)
    \/ \E w \in Workers, r \in ForwardResults : Analyse(w, r, TRUE)
    \/ \E w \in Workers : Speak(w)
    \/ \E s \in Senders : SenderTop(s)
    \/ \E s \in Senders : SenderConnects(s)
    \/ \E s \in Senders : SenderStream(s)
    \/ \E s \in Senders : SenderSendDone(s)

InitForward == Init /\ speech_cfg = "enabled" /\ filter_available

SpecForward == InitForward /\ [][NextForward]_vars

\* A camera whose reads fail now and then, in sessions that follow one
\* another.
CaptureDeltas == {300}

CaptureResults == {D1}

NextCapture ==
    \/ SequentialStart
    \/ StopMonitoring
    \/ \E w \in Workers : WorkerExit(w)
    \/ /\ camera_seq < MaxFrames
       /\ \E w \in Workers, d \in CaptureDeltas, t \in BOOLEAN :
             ProcessFrame(w, d, t)
    \/ /\ Len(capture_log) < MaxReadFailures
       /\ \E w \in Workers : ReadFail(w)
    \/ \E w \in Workers, r \in CaptureResults : Analyse(w, r, TRUE)
    \/ \E w \in Workers : Speak(w)

SpecCapture == InitStore /\ [][NextCapture]_vars

\* A speech service that speaks, fails or raises; descriptions alike and
\* unlike.
SpeechDeltas == {300}

SpeechResults == {D1, D3}

NextSpeech ==
    \/ SequentialStart
    \/ /\ camera_seq < MaxNoveltyFrames
       /\ \E w \in Workers, d \in SpeechDeltas, t \in BOOLEAN :
             ProcessFrame(w, d, t)
    \/ \E w \in Workers, r \in SpeechResults : Analyse(w, r, TRUE)
    \/ \E w \in Workers : Speak(w)
    \/ \E w \in Workers : SpeakFails(w)
    \/ \E w \in Workers : SpeakRaises(w)

SpecSpeech == InitStore /\ [][NextSpeech]_vars

\* The relay, enabled or not, beside a monitor that is not running.
InitRelay == Init /\ speech_cfg = "enabled" /\ filter_available

InitRelayEnabled == InitRelay /\ relay_enabled

SpecRelayQueue == InitRelayEnabled /\ [][NextRelayQueue]_vars

SpecRelayLife == InitRelay /\ [][NextRelayLife]_vars

\* Each sender thread keeps running while it has a step to take.
SpecRelayLive ==
    SpecRelayLife /\ \A s \in Senders : WF_vars(SenderRun(s))

----------------------------------------------------------------------------
(* What the properties below read off a step or a state *)

\* The step hands a frame to the oracle and logs its answer.
NewDecision == Len(oracle_log') = Len(oracle_log) + 1

\* The step is an iteration whose decision is v ("true" or "false").
Decided(v) == NewDecision /\ oracle_log'[Len(oracle_log')].decision = v

\* The step closes the window: a thread leaves the loop for the analysis.
Closes == \E w \in Workers : worker[w].pc = "loop" /\ worker'[w].pc = "analyse"

\* Frames with a true decision taken between lo and hi.
TrueFrames(lo, hi) ==
    {f \in 1..Len(oracle_log) :
        /\ oracle_log[f].decision = "true"
        /\ lo <= oracle_log[f].ts
        /\ oracle_log[f].ts <= hi}

\* The same frames in capture order.
TrueFramesSeq(lo, hi) ==
    SelectSeq([f \in 1..Len(oracle_log) |-> f],
              LAMBDA f : f \in TrueFrames(lo, hi))

\* A thread is in the downstream work of a closed window.
Downstream(w) == worker[w].pc \in {"analyse", "speak"}

----------------------------------------------------------------------------
(* C1: for every window opened, at most one Event is appended to the event
   store and the AI description collaborator is invoked at most once,
   whichever post-close step fails.  Windows are told apart by their start
   time.  The statement is violated: when the speech-config lookup of line
   229 raises, the window is not cleared and the next frame closes it again. *)
C1_OneEventPerWindow ==
    /\ \A i, j \in DOMAIN events :
          i # j => events[i].ts_ms # events[j].ts_ms
    /\ \A i, j \in DOMAIN ai_calls :
          i # j => ai_calls[i].window # ai_calls[j].window

(* C2: on close the window is reset to Idle (flag false, frame list empty)
   before any downstream step, so that it is Idle while and after the
   downstream work runs.  The statement is violated: lines 245-246 clear the
   window after the downstream work. *)
C2_IdleBeforeDownstream ==
    \A w \in Workers :
        Downstream(w) => ~agg_active /\ agg_frames_b64 = <<>>

(* C3: at most one aggregation window is active at any time, over all
   decision sequences and start/stop calls: the frames of the active window
   all belong to the one window that its start time names, and a true
   decision received while a window is Active extends that window (same
   start, the frame appended) instead of opening a second one. *)
C3_WindowIsOne ==
    agg_active =>
        /\ agg_frames_b64 # <<>>
        /\ oracle_log[agg_frames_b64[1]].ts = agg_start_ts
        /\ \A i \in DOMAIN agg_frames_b64 :
              oracle_log[agg_frames_b64[i]].ts >= agg_start_ts

C3_Extends ==
    (agg_active /\ Decided("true")) =>
        /\ agg_active'
        /\ agg_start_ts' = agg_start_ts
        /\ agg_frames_b64' = Append(agg_frames_b64, camera_seq')

C4_QuietStep ==
    (NewDecision /\ agg_active /\ (now' - agg_start_ts) < agg_max_duration) =>
        /\ Decided("false") =>
              /\ Closes <=> (now' - agg_last_trigger_ts) > QuietLiteralMs
              /\ ~Closes =>
                    /\ agg_active'
                    /\ agg_frames_b64' = agg_frames_b64
                    /\ agg_start_ts' = agg_start_ts
                    /\ agg_last_trigger_ts' = agg_last_trigger_ts
        /\ Decided("true") => ~Closes

C4_OneClosePerRun ==
    (Decided("false") /\ Closes /\ hub_log # <<>>) =>
        \E f \in DOMAIN oracle_log :
            /\ oracle_log[f].decision = "true"
            /\ oracle_log[f].ts > hub_log[Len(hub_log)].ts

C4_QuietClose == [][C4_QuietStep /\ C4_OneClosePerRun]_vars

(* C5: timeout-close.  At the first frame decided at or after window start
   + maximum duration the window closes, whether the decision is true or
   false, with the frames collected so far; and the true decision that
   follows a timeout-close opens a new window, starting at that frame.  The
   statement is violated: after a timeout-close whose speech-config lookup
   fails the window is still the old one, and the next true decision extends
   it. *)
C5_TimeoutStep ==
    (NewDecision /\ agg_active' /\ (now' - agg_start_ts') >= agg_max_duration) =>
        \E w \in Workers :
            /\ worker[w].pc = "loop"
            /\ worker'[w].pc = "analyse"
            /\ worker'[w].frames = agg_frames_b64'
            /\ worker'[w].count = Len(agg_frames_b64')
            /\ worker'[w].window_ms = now' - agg_start_ts'

\* The decision before this step closed a window by timeout.
C5_JustTimedOut ==
    /\ hub_log # <<>>
    /\ oracle_log # <<>>
    /\ hub_log[Len(hub_log)].ts = oracle_log[Len(oracle_log)].ts
    /\ hub_log[Len(hub_log)].duration_ms >= agg_max_duration

C5_ReopenStep ==
    (Decided("true") /\ C5_JustTimedOut) =>
        /\ agg_active'
        /\ agg_start_ts' = now'
        /\ agg_frames_b64' = <<camera_seq'>>

C5_TimeoutClose == [][C5_TimeoutStep /\ C5_ReopenStep]_vars

(* C6: the frames_count of every emitted event equals the number of
   true-decision frames received between the opening of its window and its
   close (a true frame that triggers a timeout-close included); the window's
   frame list is exactly those frames in capture order, frames decided false
   are never added, and the frame analysed is the last of them. *)
C6_FrameCount ==
    /\ agg_active => agg_frames_b64 = TrueFramesSeq(agg_start_ts, now)
    /\ \A w \in Workers :
          Downstream(w) =>
              /\ worker[w].frames =
                    TrueFramesSeq(worker[w].current_time - worker[w].window_ms,
                                  worker[w].current_time)
              /\ worker[w].count = Len(worker[w].frames)
    /\ \A i \in DOMAIN events :
          events[i].frames_count =
              Cardinality(TrueFrames(events[i].ts_ms,
                                     events[i].ts_ms + events[i].duration_ms))
    /\ \A i \in DOMAIN ai_calls :
          /\ ai_calls[i].frame \in TrueFrames(ai_calls[i].window, ai_calls[i].at)
          /\ \A g \in TrueFrames(ai_calls[i].window, ai_calls[i].at) :
                g <= ai_calls[i].frame

\* An event of two frames whose window also saw a frame decided false, the
\* second of the two frames analysed.
C6_Witness ==
    \E i \in DOMAIN events :
        /\ events[i].frames_count = 2
        /\ \E f \in DOMAIN oracle_log :
              /\ oracle_log[f].decision = "false"
              /\ oracle_log[f].ts > events[i].ts_ms
              /\ oracle_log[f].ts < events[i].ts_ms + events[i].duration_ms
        /\ \E j \in DOMAIN ai_calls :
              /\ ai_calls[j].window = events[i].ts_ms
              /\ oracle_log[ai_calls[j].frame].ts > events[i].ts_ms

(* C7: in every monitoring session in which the oracle returns only false
   decisions (the first session or one started after an earlier one was
   stopped, with or without a window Active), no window is opened and no
   event is appended or broadcast.  The statement is violated:
   start_monitoring keeps the window of the session before, and the first
   false frame of the new session closes it. *)
C7_FalseOnlySession ==
    [][stats'.triggers = 0 =>
           /\ events' = events
           /\ hub_log' = hub_log
           /\ agg_active' => agg_active]_vars

(* C8: the capture loop never waits for the AI description call or the
   speech call of a closed window: while such a call is pending, the thread
   can still take the next frame and hand it to the oracle.  The statement
   is violated: both calls are made inline by the loop's own thread. *)
C8_LoopNeverWaits ==
    \A w \in Workers :
        (Downstream(w) /\ monitoring) =>
            ENABLED (\E d \in AggDeltas, should_trigger \in BOOLEAN :
                        ProcessFrame(w, d, should_trigger))

----------------------------------------------------------------------------
(* What the novelty properties read off a step *)

\* The step ends the analysis of a closed window and stores its event.
AnalysedStep == Len(events') = Len(events) + 1

\* The description and the closing time of the event the step stores.
StepDescription == events'[Len(events')].description

StepTime == events'[Len(events')].ts_ms + events'[Len(events')].duration_ms

\* The step calls speak_description.
SpokenInStep == Len(speech_calls') = Len(speech_calls) + 1

\* The step meets the filter: speech enabled, a non-empty description.
FilteredStep ==
    AnalysedStep /\ speech_cfg = "enabled" /\ StepDescription \notin {None, ""}

\* The pairs of Descriptions whose lower-cased SequenceMatcher ratio is at
\* least 0.90: the ratios are 1.0 for a text and itself, 0.9 for D1 and D2,
\* 0.8 for D1 and D3, 0.7 for D2 and D3.
AlikeExpected ==
    {<<D1, D1>>, <<D2, D2>>, <<D3, D3>>, <<D1, D2>>, <<D2, D1>>}

(* C9: novelty filter.  With speech enabled and a non-empty new
   description, the description is suppressed if and only if a description
   was spoken before, its case-insensitive similarity to the new one is at
   least 0.90 and less than 60 s have passed since it was spoken; in every
   other case the description is spoken, and what is spoken becomes the
   baseline of the filter. *)
C9_FilterStep ==
    FilteredStep =>
        /\ ~SpokenInStep <=>
              /\ speech_calls # <<>>
              /\ <<StepDescription, speech_calls[Len(speech_calls)].text>>
                    \in AlikeExpected
              /\ StepTime - speech_calls[Len(speech_calls)].ts < NoveltyWindowMs
        /\ SpokenInStep =>
              speech_calls'[Len(speech_calls')] =
                  [text |-> StepDescription, ts |-> StepTime]

C9_BaselineStep ==
    \A w \in Workers :
        (worker[w].pc = "speak" /\ worker'[w].pc # "speak") =>
            /\ last_summary_text' = speech_calls[Len(speech_calls)].text
            /\ last_summary_ts' = speech_calls[Len(speech_calls)].ts

C10_SuppressedStep ==
    (FilteredStep /\ ~SpokenInStep) =>
        /\ last_summary_text' = last_summary_text
        /\ last_summary_ts' = last_summary_ts

C10_SpokenAgainStep ==
    (/\ FilteredStep
     /\ speech_calls # <<>>
     /\ StepTime - speech_calls[Len(speech_calls)].ts >= NoveltyWindowMs) =>
        SpokenInStep

C10_CountedFromLastSpoken ==
    (\A w \in Workers : worker[w].pc # "speak") =>
        IF speech_calls = <<>>
        THEN last_summary_text = None
        ELSE /\ last_summary_text = speech_calls[Len(speech_calls)].text
             /\ last_summary_ts = speech_calls[Len(speech_calls)].ts

----------------------------------------------------------------------------
(* What the failure properties read off a step *)

\* Thread w ends the analysis of a closed window in this step.
AnalysisEnds(w) == worker[w].pc = "analyse" /\ worker'[w].pc # "analyse"

\* The call of event_store.append made in this step.
StepAppend == append_calls'[Len(append_calls')]

\* The analysis ends without a call of the AI collaborator although the
\* window has frames: the decode raised.
DecodeFailed(w) ==
    AnalysisEnds(w) /\ worker[w].frames # <<>> /\ ai_calls' = ai_calls

\* The analysis ends with a call of the AI collaborator that left no
\* description: the call raised or returned None.
AIFailed(w) ==
    /\ AnalysisEnds(w)
    /\ Len(ai_calls') = Len(ai_calls) + 1
    /\ Len(append_calls') = Len(append_calls) + 1
    /\ StepAppend.record.description = None

\* The analysis ends with a call of event_store.append that raised.
AppendFailed(w) ==
    /\ AnalysisEnds(w)
    /\ Len(append_calls') = Len(append_calls) + 1
    /\ ~StepAppend.ok

(* C11: when the oracle raises for a frame the loop does not terminate and
   the frame is treated exactly as a false decision: it is counted as a
   frame saved, and the quiet-close and timeout-close conditions of an
   active window are evaluated for it.  The statement is violated: the
   exception leaves the iteration at line 156, so the frame is not counted
   and an active window is not looked at. *)
C11_RaiseIsFalse ==
    [][Decided("raised") =>
          /\ \E w \in Workers : worker'[w].pc # "dead"
          /\ stats'.api_saves = stats.api_saves + 1
          /\ ShouldClose(Agg, FALSE, now') => Closes]_vars

(* C12: when decoding the last frame of a closing window fails the event is
   dropped: no event record of that window is appended to the event store.
   The statement is violated: the decode error is caught at lines 209-210
   and the append of lines 212-226 runs all the same, with no description. *)
C12_DecodeFailureDrops ==
    [][\A w \in Workers :
          DecodeFailed(w) =>
              /\ events' = events
              /\ append_calls' = append_calls]_vars

(* C13: when the AI description call fails for a decoded closing frame the
   failure is not fatal: the event is still appended, with its timing and
   frame count and no description, no speech call is made for it, the
   window is cleared, and the loop goes on with the next frame. *)
C13_AIFailureStep ==
    \A w \in Workers :
        AIFailed(w) =>
            /\ StepAppend.record.ts_ms = agg_start_ts
            /\ StepAppend.record.duration_ms =
                  worker[w].current_time - agg_start_ts
            /\ StepAppend.record.frames_count = Len(worker[w].frames)
            /\ StepAppend.ok => events' = Append(events, StepAppend.record)
            /\ speech_calls' = speech_calls
            /\ ~agg_active'
            /\ agg_frames_b64' = <<>>
            /\ worker'[w].pc = "loop"

C13_AIFailureNotFatal == [][C13_AIFailureStep]_vars

\* An event without description stored for a window whose AI call was made,
\* and a frame taken after it.
C13_Witness ==
    \E i \in DOMAIN events, j \in DOMAIN ai_calls :
        /\ events[i].description = None
        /\ events[i].frames_count >= 1
        /\ ai_calls[j].window = events[i].ts_ms
        /\ ai_calls[j].at = events[i].ts_ms + events[i].duration_ms
        /\ oracle_log[Len(oracle_log)].ts > ai_calls[j].at
        /\ speech_calls = <<>>

(* C14: when the append to the event store raises, the loop does not
   terminate: the event is lost, the window is still cleared to Idle and
   the frames after it are processed.  The statement is violated: after the
   failed append the speech-config lookup of line 229 can raise, and then
   the window is left as it was. *)
C14_AppendFailureStep ==
    \A w \in Workers :
        /\ AppendFailed(w) =>
              /\ events' = events
              /\ worker'[w].pc \in {"loop", "speak"}
              /\ worker'[w].pc = "loop" =>
                    (~agg_active' /\ agg_frames_b64' = <<>>)
        /\ (worker[w].pc = "speak" /\ worker'[w].pc = "loop") =>
              (~agg_active' /\ agg_frames_b64' = <<>>)

C14_AppendFailureNotFatal == [][C14_AppendFailureStep]_vars

----------------------------------------------------------------------------
(* What the control properties read off a step or a state *)

\* The step is a call of op that returns: ret is written anew.
Called(op) == ret' # ret /\ ret'.op = op

\* Everything but ret is left as it was.
NothingElseChanges ==
    UNCHANGED <<now, camera_seq, monitoring, worker, stats, agg_active,
                agg_start_ts, agg_last_trigger_ts, agg_frames_b64,
                last_summary_text, last_summary_ts, events, hub_log,
                ai_calls, speech_calls, speech_cfg, oracle_log, append_calls,
                filter_available, outsideMonitor>>

\* Thread w is at work: in an iteration it may begin, or in the downstream
\* work of a closed window.
Running(w) == Downstream(w) \/ (worker[w].pc = "loop" /\ monitoring)

(* C15: start_monitoring called while monitoring is active returns False
   and changes nothing: no second thread is spawned, and the statistics
   and the start time are not reset. *)
C15_StartWhileActiveStep ==
    (monitoring /\ Called("start")) =>
        /\ ret' = Returned("start", FALSE, "already_active")
        /\ NothingElseChanges

C15_StartWhileActive == [][C15_StartWhileActiveStep]_vars

\* A refused start during a session that has counted frames.
C15_Witness ==
    /\ ret = Returned("start", FALSE, "already_active")
    /\ monitoring
    /\ stats.frames_processed >= 2
    /\ stats.start_time < now
    /\ Cardinality({w \in Workers : worker[w].pc # "dead"}) = 1

(* C16: for every interleaving of start_monitoring and stop_monitoring
   calls, a start issued after a stop whose join timed out included, at
   most one monitor thread is at work at a time.  The statement is
   violated: a thread that is in the AI call when the session is stopped
   and restarted finds monitoring True again and goes on beside the new
   one. *)
C16_OneWorker == Cardinality({w \in Workers : Running(w)}) <= 1

(* C17: every thread running when stop_monitoring is called starts no new
   iteration after the one in progress, whatever calls follow the stop, a
   new start_monitoring included; and stop_monitoring returns True exactly
   when monitoring was active, and returns False with no change of state
   otherwise.  The statement is violated: the thread tests the one flag
   that the next start sets again. *)
C17_StoppedStep ==
    \A w \in Workers :
        worker[w].stopped =>
            ~(NewDecision /\ oracle_log'[Len(oracle_log')].by = w)

C17_StopReturnStep ==
    Called("stop") =>
        /\ ret'.value <=> monitoring
        /\ ~monitoring'
        /\ ~ret'.value => NothingElseChanges

C17_StopObserved == [][C17_StoppedStep /\ C17_StopReturnStep]_vars

(* C18: when initialization fails (no capture source or one that is not
   open, or no oracle) start_monitoring returns False without raising,
   monitoring stays False, no thread is spawned and the statistics are not
   reset. *)
C18_InitFailsStep ==
    /\ (Called("start") /\ ret'.why \in InitFailures) =>
          /\ ~ret'.value
          /\ ~monitoring
          /\ NothingElseChanges
    /\ (Called("start") /\ ~monitoring /\ ~filter_available) =>
          (~ret'.value /\ ret'.why \in InitFailures)

C18_InitFailure == [][C18_InitFailsStep]_vars

\* A start that failed in initialize() after a session that counted frames:
\* the counters of that session are still there.
C18_Witness ==
    /\ ret.op = "start"
    /\ ret.why \in InitFailures
    /\ ~monitoring
    /\ stats.frames_processed >= 1
    /\ \A w \in Workers : worker[w].pc = "dead"

(* C19: when the oracle is absent, aggregation is disabled but raw relaying
   is not: a start with an open camera begins a session, whose thread
   forwards the captured frames.  The statement is violated: without the
   oracle initialize() returns False and no session is started. *)
C19_RelayWithoutOracle ==
    (/\ ~filter_available
     /\ ret.op = "start"
     /\ ret.why \notin {"no_camera", "raised"}) =>
        /\ ret.value
        /\ monitoring \/ \E w \in Workers : worker[w].pc # "dead"

----------------------------------------------------------------------------
(* What the event store's properties read off the file *)

\* The events whose lines are complete in the file, in file order: a line
\* is a "json" piece followed by its "newline".
StoreLines ==
    [k \in 1..(Len(store_file) \div 2) |-> store_file[2 * k - 1].ev]

\* The events whose append has returned.
StoreReturned ==
    UNION {{store_caller[t].returned[k] : k \in DOMAIN store_caller[t].returned}
              : t \in Callers}

(* C20: the event store is append-only.  Each successful append adds
   exactly one line at the end of the log, the content before an append is
   a prefix of the content after it, and two concurrent appends neither
   interleave their bytes nor lose a record. *)
C20_LinesWhole ==
    /\ \A i \in DOMAIN store_file :
          /\ store_file[i].part = IF i % 2 = 1 THEN "json" ELSE "newline"
          /\ i % 2 = 0 => store_file[i].ev = store_file[i - 1].ev
    /\ \A j, k \in DOMAIN StoreLines : StoreLines[j] = StoreLines[k] => j = k
    /\ \A e \in StoreReturned : \E k \in DOMAIN StoreLines : StoreLines[k] = e

C20_AppendStep ==
    /\ store_file' # store_file =>
          \E piece \in {store_file'[Len(store_file')]} :
              store_file' = Append(store_file, piece)
    /\ \A t \in Callers :
          Len(store_caller'[t].returned) > Len(store_caller[t].returned) =>
              /\ store_file' = store_file
              /\ Len(store_file) % 2 = 0
              /\ StoreLines[Len(StoreLines)] = <<t, store_caller[t].n>>
              /\ store_caller'[t].returned =
                    Append(store_caller[t].returned, <<t, store_caller[t].n>>)

C20_AppendOnly == []C20_LinesWhole /\ [][C20_AppendStep]_vars

\* Two callers in append at once, one writing its line and one waiting with
\* its own, after a line of each is in the file.
C20_Witness ==
    /\ Len(StoreLines) >= 2
    /\ \A t \in Callers : store_caller[t].returned # <<>>
    /\ \E t, u \in Callers :
          /\ store_caller[t].pc = "writing"
          /\ store_caller[t].written = 1
          /\ store_caller[u].pc = "serialised"

----------------------------------------------------------------------------
(* What the properties of the queries read off a step *)

\* The step is a query op that returns or raises.
QueryStep(op) == query_ret' # query_ret /\ query_ret'.op = op

\* The last n elements of a sequence, all of it when n exceeds its length.
LastN(seq, n) ==
    LET m == IF n < Len(seq) THEN n ELSE Len(seq)
    IN  SubSeq(seq, Len(seq) - m + 1, Len(seq))

\* The instant a stored event carries, when its timestamp can be read.
Timed(ev) == FromIso(TsOf(ev)).ok

InstantOf(ev) == FromIso(TsOf(ev)).t

(* C21: for a log of N records and every limit >= 0, limit 0 and limits
   above N included, recent(limit) returns the last min(limit, N) records
   in the order of their appends, each as it was appended.  The statement
   is violated: recent(0) returns the whole log. *)
C21_RecentStep ==
    QueryStep("recent") =>
        /\ ~query_ret'.raised
        /\ query_ret'.value =
              LastN(ReadAll(store_file), query_ret'.args.limit)

C21_RecentIsTail == [][C21_RecentStep]_vars

(* C22: range(from, to) returns, in log order, the records whose timestamp
   t satisfies from <= t <= to, leaves out the records whose timestamp is
   missing or cannot be read, and returns a list rather than raising for
   every combination of bounds and stored timestamps.  The statement is
   violated: a bound with a zone against a stored timestamp without one (or
   the reverse) raises TypeError at the comparison. *)
C22_RangeStep ==
    QueryStep("range") =>
        LET from == FromIso(query_ret'.args.from_iso)
            to   == FromIso(query_ret'.args.to_iso)
        IN  /\ ~query_ret'.raised
            /\ (from.ok /\ to.ok) =>
                  query_ret'.value =
                      SelectSeq(ReadAll(store_file),
                                LAMBDA ev : /\ Timed(ev)
                                            /\ from.t <= InstantOf(ev)
                                            /\ InstantOf(ev) <= to.t)

C22_RangeInclusive == [][C22_RangeStep]_vars

\* Every record of the log is one the monitor wrote (line 216).
MonitorLog ==
    \A k \in DOMAIN ReadAll(store_file) :
        /\ ReadAll(store_file)[k].ts_iso.kind = "z"
        /\ ReadAll(store_file)[k].ts.kind = "none"

\* The records of the trailing window, oldest first.
InWindow(evs, cutoff) ==
    SelectSeq(evs, LAMBDA ev : Timed(ev) /\ InstantOf(ev) >= cutoff)

(* C23: for a log of events as the monitor writes them (ts_iso ending in
   'Z'), context(windowMinutes, limit) returns without error the most
   recent records of the trailing window, each reduced to the five fields
   of the projection, oldest first.  The statement is violated: the
   timestamp read from such a record has a zone and the cutoff computed
   from utcnow() has none, so their comparison raises TypeError. *)
C23_ContextStep ==
    (QueryStep("context") /\ MonitorLog) =>
        LET a      == query_ret'.args
            recent == LastN(InWindow(ReadAll(store_file),
                                     a.utcnow - a.window_minutes * Minute),
                            a.limit)
        IN  /\ ~query_ret'.raised
            /\ a.limit >= 1 =>
                  query_ret'.value.events =
                      [k \in DOMAIN recent |-> Projection(recent[k])]

C23_ContextOfMonitorLog == [][C23_ContextStep]_vars

(* C24: for every limit >= 0, limit 0 included, context(windowMinutes,
   limit) returns at most limit records, and the count it reports is the
   number of records it returns.  The statement is violated: the limit is
   tested after a record has been selected, so context(w, 0) returns
   one record. *)
C24_ContextStep ==
    (QueryStep("context") /\ ~query_ret'.raised) =>
        /\ Len(query_ret'.value.events) <= query_ret'.args.limit
        /\ query_ret'.value.count = Len(query_ret'.value.events)

C24_ContextWithinLimit == [][C24_ContextStep]_vars

----------------------------------------------------------------------------
(* What the properties of the hub read off a step *)

\* The step is a call of broadcast().
BroadcastStep == hub_n' = hub_n + 1

\* The step is the failure of the oldest send to subscriber c.
SendFailsStep(c) ==
    /\ hub_loop' = hub_loop
    /\ Len(hub_failed'[c]) = Len(hub_failed[c]) + 1

\* The step is the loop running the next scheduled _broadcast call.
RunBroadcastStep ==
    /\ hub_loop' = hub_loop
    /\ HubLoopTurns
    /\ hub_tasks # <<>>
    /\ hub_tasks' = Tail(hub_tasks)

(* C25: broadcast never blocks and never raises to the publisher, in any
   state of the hub: before the hub is started (the message is dropped),
   while it runs with no, slow or disconnected subscribers, and after it
   has been stopped. *)
C25_NeverBlocks == \A serialisable \in BOOLEAN : ENABLED HubBroadcast(serialisable)

C25_BroadcastStep ==
    BroadcastStep =>
        /\ hub_ret'.op = "broadcast"
        /\ hub_ret'.outcome \in {"dropped", "scheduled", "swallowed"}
        /\ hub_loop = "none" =>
              (hub_ret'.outcome = "dropped" /\ hub_tasks' = hub_tasks)
        /\ UNCHANGED <<hub_loop, hub_thread, hub_clients, hub_pending,
                       hub_received>>

C25_BroadcastNeverRaises == []C25_NeverBlocks /\ [][C25_BroadcastStep]_vars

\* A broadcast made after the hub was stopped returned, the hub having
\* delivered to a subscriber before.
C25_Witness ==
    /\ hub_ret = HubReturned("broadcast", hub_n, "swallowed")
    /\ hub_loop = "closed"
    /\ hub_thread = "dead"
    /\ \E c \in Subscribers : hub_received[c] # <<>>

(* C26: a failure while delivering a message to one subscriber is isolated:
   every other subscriber connected at delivery time is still sent the
   message, and later broadcasts are still delivered to the subscribers
   whose connection works. *)
C26_IsolatedStep ==
    /\ RunBroadcastStep =>
          \A c \in hub_clients :
              hub_pending'[c] = Append(hub_pending[c], Head(hub_tasks))
    /\ \A c \in Subscribers :
          SendFailsStep(c) =>
              /\ hub_tasks' = hub_tasks
              /\ hub_clients' = hub_clients
              /\ \A d \in Subscribers \ {c} :
                    /\ hub_pending'[d] = hub_pending[d]
                    /\ hub_received'[d] = hub_received[d]
    /\ \A c \in Subscribers \ hub_broken :
          (/\ hub_loop' = hub_loop
           /\ hub_pending[c] # <<>>
           /\ hub_pending'[c] = Tail(hub_pending[c])) =>
              hub_received'[c] = Append(hub_received[c], Head(hub_pending[c]))

C26_FailureIsolated == [][C26_IsolatedStep]_vars

\* The send of a message to one subscriber raised, another subscriber
\* received that message and a later one.
C26_Witness ==
    \E c, d \in Subscribers :
        /\ c # d
        /\ hub_failed[c] # <<>>
        /\ \E j, k \in DOMAIN hub_received[d] :
              /\ hub_received[d][j] = hub_failed[c][1]
              /\ hub_received[d][k] > hub_failed[c][1]

----------------------------------------------------------------------------
(* What the properties of the relay read off a step or a state *)

\* Producer p is inside enqueue or may call it, and has a step to take.
CanGoOn(p) == ENABLED (Enqueue(p) \/ EnqueueDrop(p) \/ EnqueueRetry(p))

\* The step is producer p dropping the oldest item after queue.Full.
DropStep(p) ==
    relay_producer[p].pc = "full" /\ relay_producer'[p].pc = "retry"

\* The step is enqueue returning to producer p after it found the queue
\* full.
OverflowReturnStep(p) ==
    relay_producer[p].pc = "retry" /\ relay_producer'[p].pc = "idle"

\* The step is a failure met by sender thread s.
SenderFailureStep(s) ==
    /\ relay_failures' = relay_failures + 1
    /\ relay_sender'[s] # relay_sender[s]

\* The step is a call of start: it returns, or it makes a thread.
RelayStartStep ==
    /\ relay_ret'.op = "start"
    /\ relay_ret' # relay_ret \/ relay_thread' # relay_thread

\* The step is a call of stop that follows something other than a stop.
RelayStopStep ==
    /\ relay_ret'.op = "stop"
    /\ relay_ret' # relay_ret

(* C27: for any sequence of enqueue calls interleaved with the dequeues of
   the sender, enqueue never blocks its caller and the length of the queue
   never exceeds its capacity, 100. *)
C27_BoundedQueue ==
    /\ Len(relay_q) <= maxsize
    /\ \A p \in Workers : CanGoOn(p)

\* The queue is full after more calls than it can hold, the sender has
\* taken frames in between, and the last call returned after an overflow.
C27_Witness ==
    /\ Len(relay_q) = maxsize
    /\ relay_n > maxsize
    /\ relay_taken >= 1
    /\ relay_ret.op = "enqueue"
    /\ relay_ret.item > maxsize
    /\ relay_ret.outcome = "admitted"
    /\ relay_q[1] > 1

(* C28: when enqueue is called on a full queue of an enabled relay, the
   oldest queued item is dropped and the new item is admitted at the tail:
   when enqueue(x) returns x is the newest item of the queue, and the items
   kept are in their order.  The statement is violated: between the drop
   and the second put another monitor thread fills the queue, the second
   put raises queue.Full, which is passed over, and x is gone. *)
C28_OverflowStep ==
    \A p \in Workers :
        /\ (DropStep(p) /\ relay_q # <<>>) => relay_q' = Tail(relay_q)
        /\ OverflowReturnStep(p) =>
              /\ relay_q' = Append(relay_q, relay_producer[p].item)
              /\ relay_ret' = RelayReturned("enqueue", p,
                                            relay_producer[p].item, "admitted")

C28_DropOldestAdmitNewest == [][C28_OverflowStep]_vars

(* C29: while the relay has not been stopped, after every connection
   failure and every send failure the sender drops the connection and
   eventually attempts a new connection; it never gives up retrying, and
   its thread ends only after stop_flag is set. *)
C29_ExitStep ==
    \A s \in Senders :
        (relay_sender[s].pc # "dead" /\ relay_sender'[s].pc = "dead") =>
            relay_stop_flag

C29_FailureStep ==
    \A s \in Senders :
        SenderFailureStep(s) =>
            /\ relay_sender'[s].pc \in {"backoff", "top"}
            /\ relay_sender'[s].frame = 0

C29_Reconnects ==
    \A s \in Senders :
        (relay_sender[s].pc \in {"backoff", "top"} /\ ~relay_stop_flag)
            ~> (relay_sender[s].pc = "connecting" \/ relay_stop_flag)

C29_NeverGivesUp ==
    [][C29_ExitStep /\ C29_FailureStep]_vars /\ C29_Reconnects

\* A sender connecting again after a failed connection and a failed send.
C29_Witness ==
    \E s \in Senders :
        /\ relay_sender[s].pc = "connecting"
        /\ relay_failures >= 2
        /\ relay_taken >= 1
        /\ relay_q = <<>>
        /\ ~relay_stop_flag

(* C30: start and stop are idempotent: for any sequence of start() and
   stop() calls at most one sender thread is alive at a time, a start()
   while a sender is alive creates no second sender, and a repeated stop()
   has no further effect. *)
C30_OneSender == Cardinality({s \in Senders : SenderAlive(s)}) <= 1

C30_CallStep ==
    /\ (RelayStartStep /\ ThreadAlive) =>
          UNCHANGED <<relay_sender, relay_thread, relay_stop_flag, relay_q>>
    /\ (RelayStopStep /\ relay_stop_flag) =>
          UNCHANGED <<relay_sender, relay_thread, relay_stop_flag, relay_q>>

C30_Idempotent == []C30_OneSender /\ [][C30_CallStep]_vars

\* A second sender is alive after the first has ended; it was stopped, and
\* the start that followed found it alive.
C30_Witness ==
    /\ relay_sender[1].pc = "dead"
    /\ SenderAlive(2)
    /\ relay_stop_flag
    /\ relay_ret = RelayReturned("start", 0, 0, "alive")

(* C31: after stop() is called the sender thread eventually terminates,
   from the streaming loop, from a connection attempt and from the retry
   sleep alike, and it sends no frame after stop() has returned.  The
   statement is violated: stop() returns when its join of 2 s expires, the
   sender is still inside ws.send, and the frame goes out afterwards. *)
C31_SendStep ==
    \A s \in Senders :
        (relay_sender[s].pc = "sending" /\ relay_sender'[s].pc = "streaming")
            => ~relay_stop_flag

C31_Terminates ==
    \A s \in Senders :
        (relay_stop_flag /\ SenderAlive(s)) ~> ~SenderAlive(s)

C31_StopEndsSender == [][C31_SendStep]_vars /\ C31_Terminates

(* C37: on every connection the relay makes, the first and every
   reconnection, the hello message with width, height and encoding is sent
   before any frame, and no frame is sent on a connection on which the
   hello message was not sent successfully.  The statement is violated: an
   exception of the hello send is passed over and the frames follow. *)
C37_HelloFirst ==
    \A s \in Senders :
        relay_sender[s].pc = "sending" => relay_sender[s].hello = "sent"

(* C39: whenever start() returns True a sender thread is alive with
   stop_flag cleared, and so goes on draining the queue until the next
   stop(); so too for a start() that follows a stop() whose join timed out
   with the old sender alive.  The statement is violated: that start()
   returns True at line 33 and leaves stop_flag set, and the old sender
   ends at its next test of the flag. *)
C39_StartStep ==
    (RelayStartStep /\ relay_ret'.outcome \in {"started", "alive"}) =>
        /\ ThreadAlive'
        /\ ~relay_stop_flag'

C39_StartedMeansRunning == [][C39_StartStep]_vars

----------------------------------------------------------------------------
(* What the properties of the loop read off a step *)

\* The decision, or what stood in its place, for the frame of this step.
StepDecision == oracle_log'[Len(oracle_log')].decision

\* The step reads a frame and encodes it.
Encoded == NewDecision /\ StepDecision # "unencoded"

\* The step is a call of enqueue by a monitor thread.
OfferedStep == relay_n' = relay_n + 1 /\ relay_ret'.op = "enqueue"

(* C32: every frame that is acquired and encoded is offered to the relay
   before the oracle is consulted for it: it is forwarded whatever the
   oracle returns and also when the oracle raises, and an enqueue that fails
   never interrupts the iteration. *)
C32_OfferStep ==
    Encoded =>
        /\ OfferedStep
        /\ relay_ret'.item = camera_seq'
        /\ relay_enabled => relay_ret'.outcome \in {"admitted", "raised"}
        /\ relay_ret'.outcome = "admitted" =>
              /\ relay_q' # <<>>
              /\ relay_q'[Len(relay_q')] = camera_seq'

C32_GoesOnStep ==
    (OfferedStep /\ relay_ret'.outcome = "raised") =>
        /\ NewDecision
        /\ StepDecision \in {"true", "false"}
        /\ stats'.frames_processed = stats.frames_processed + 1
        /\ stats'.triggers + stats'.api_saves =
              stats.triggers + stats.api_saves + 1

C32_ForwardsEveryFrame == [][C32_OfferStep /\ C32_GoesOnStep]_vars

\* The sender is sending a frame on which the oracle raised, after a call of
\* enqueue that raised and a frame the oracle decided false.
C32_Witness ==
    \E s \in Senders :
        /\ relay_sender[s].pc = "sending"
        /\ oracle_log[relay_sender[s].frame].decision = "raised"
        /\ relay_n > Len(relay_q) + relay_taken
        /\ stats.api_saves >= 1

\* The oracle's decisions of the session under way.
SessionDecisions(v) ==
    {f \in DOMAIN oracle_log :
        oracle_log[f].ts > stats.start_time /\ oracle_log[f].decision = v}

(* C33: each decision the oracle returns increments exactly one counter by
   one, triggers when should_trigger is true and api_saves when it is
   false; hence in every reachable state of a session triggers + api_saves
   is the number of decisions received and never exceeds
   frames_processed. *)
C33_Counted ==
    /\ stats.triggers = Cardinality(SessionDecisions("true"))
    /\ stats.api_saves = Cardinality(SessionDecisions("false"))
    /\ stats.triggers + stats.api_saves <= stats.frames_processed

C33_DecisionStep ==
    NewDecision =>
        /\ stats'.triggers =
              stats.triggers + (IF Decided("true") THEN 1 ELSE 0)
        /\ stats'.api_saves =
              stats.api_saves + (IF Decided("false") THEN 1 ELSE 0)

C33_OneCounterPerDecision == []C33_Counted /\ [][C33_DecisionStep]_vars

\* Decisions of both kinds beside a frame the oracle raised on and a frame
\* that could not be encoded.
C33_Witness ==
    /\ stats.triggers >= 1
    /\ stats.api_saves >= 1
    /\ stats.frames_processed >= stats.triggers + stats.api_saves + 2
    /\ \E f \in DOMAIN oracle_log : oracle_log[f].decision = "raised"
    /\ \E f \in DOMAIN oracle_log : oracle_log[f].decision = "unencoded"

\* The thread that takes the step's frame.
StepWorker == oracle_log'[Len(oracle_log')].by

\* The step is a start_monitoring that begins a session.
SessionStartStep == ~monitoring /\ monitoring'

(* C34: the counters of Stats (frames processed, triggers, frames saved)
   are all zero when the thread of a new session processes its first frame,
   count only that session's frames, and never decrease during a session.
   The statement is violated: the thread of the session before, alive past
   its stop, counts its frames into the new session's counters. *)
C34_StartStep ==
    SessionStartStep =>
        /\ stats'.frames_processed = 0
        /\ stats'.triggers = 0
        /\ stats'.api_saves = 0

C34_FrameStep ==
    NewDecision =>
        /\ ~worker[StepWorker].stopped
        /\ (\A f \in DOMAIN oracle_log :
                oracle_log[f].ts > stats.start_time =>
                    oracle_log[f].by # StepWorker)
              => stats.frames_processed = 0

C34_MonotoneStep ==
    ~SessionStartStep =>
        /\ stats'.frames_processed >= stats.frames_processed
        /\ stats'.triggers >= stats.triggers
        /\ stats'.api_saves >= stats.api_saves

C34_SessionCounters ==
    [][C34_StartStep /\ C34_FrameStep /\ C34_MonotoneStep]_vars

\* Every monitor thread is between two iterations, or has ended.
AtBoundary == \A w \in Workers : worker[w].pc \in {"loop", "dead"}

(* C38: at every boundary between two iterations of the loop, the frame
   list of the window is non-empty whenever its active flag is true and
   empty whenever the flag is false; hence every Event appended has
   frames_count >= 1. *)
C38_ActiveIffFrames ==
    /\ AtBoundary => (agg_active <=> agg_frames_b64 # <<>>)
    /\ \A i \in DOMAIN events : events[i].frames_count >= 1
    /\ \A i \in DOMAIN append_calls : append_calls[i].record.frames_count >= 1

\* A window opened anew at a boundary, after the event of the window before
\* it was appended.
C38_Witness ==
    /\ AtBoundary
    /\ events # <<>>
    /\ agg_active
    /\ Len(agg_frames_b64) >= 2
    /\ agg_start_ts > events[Len(events)].ts_ms

\* Failed reads i and j follow one another with no frame read in between.
Consecutive(i, j) ==
    /\ j = i + 1
    /\ capture_log[i].seq = capture_log[j].seq
    /\ capture_log[i].by = capture_log[j].by

(* C35: a failed frame read is non-fatal and is logged at reduced
   frequency: in a run of consecutive failed reads the failure is not
   logged on every occurrence (about one entry per 30 failures at most),
   whatever the value of frames_processed when the run begins.  The
   statement is violated: a failed read leaves frames_processed as it is,
   so when it is a multiple of 30, zero included, every failure of the run
   is logged. *)
C35_ReducedLogging ==
    \A i, j \in DOMAIN capture_log :
        Consecutive(i, j) => ~(capture_log[i].logged /\ capture_log[j].logged)

(* C36: the quiet-close comparison uses the monitor's configured quiet
   threshold, the value its quiet-threshold setting holds at session start,
   as the timeout-close uses the configured maximum window duration:
   changing the setting changes when a window quiet-closes.  The statement
   is violated: line 189 compares with the literal 0.25 and the setting,
   0.5 s, is never read. *)
C36_QuietStep ==
    (/\ NewDecision
     /\ agg_active
     /\ (now' - agg_start_ts) < agg_max_duration
     /\ Decided("false")) =>
        (Closes <=> (now' - agg_last_trigger_ts) > quiet_threshold)

C36_ConfiguredQuiet == [][C36_QuietStep]_vars

\* The step is the end of a call of speak_description.
SpeechEndsStep ==
    \E w \in Workers : worker[w].pc = "speak" /\ worker'[w].pc # "speak"

(* C40: NoveltyState is overwritten only when a description was actually
   spoken: if the speech call reports failure (speak_description returns
   False or raises) the last-spoken text and timestamp keep their values,
   so that the next similar description is not suppressed against a text
   that was never spoken.  The statement is violated: the value returned by
   speak_description is not looked at, and lines 241-242 overwrite the
   state after a call that returned False. *)
C40_SpeechStep ==
    /\ (SpeechEndsStep /\ speech_ret' \in {"failed", "raised"}) =>
          /\ last_summary_text' = last_summary_text
          /\ last_summary_ts' = last_summary_ts
    /\ (last_summary_text' # last_summary_text
           \/ last_summary_ts' # last_summary_ts) =>
          SpeechEndsStep /\ speech_ret' = "spoken"

C40_OnlyWhenSpoken == [][C40_SpeechStep]_vars

====
